---- MODULE Spec2Model ----
(***************************************************************************)
(* Model of the CosmeticSim python server: the Instruction Parser          *)
(* (instruction_parser.py), the Target Registry (config.py), the Mesh      *)
(* Deformation Engine (mesh_editor.py) and the Similarity Alignment Solver *)
(* (app.py).                                                               *)
(*                                                                         *)
(* Arithmetic.  Python floats are modelled in exact fixed point:           *)
(*   - deltas (mm or ratio) in thousandths            (DeltaScale);        *)
(*   - ratios and multipliers in tenths               (TenthScale);        *)
(*   - mesh coordinates in ten-thousandths            (CoordScale).        *)
(* Text.  A str is a sequence of characters; a character is written as a   *)
(* short ASCII name (the table of names is given with the keyword tables). *)
(***************************************************************************)
EXTENDS Integers, Sequences, FiniteSets, TLC

VARIABLES
    last_call,      \* name of the handler that ran last ("none" after start-up)
    instruction,    \* parse_instruction: the argument of the last call
    operations,     \* parse_instruction: the list it returned
    parse_error,    \* parse_instruction: TRUE iff an exception reached the caller
    reordered,      \* a second parse_instruction call: its argument and its result
    mesh_request,   \* the engine call made: handler, size of the mesh passed, arguments
    mesh,           \* the caller's mesh object (the one passed in), as it is now
    edited_mesh,    \* the engine's result: [mesh, is_arg (the object passed in)]
    response,       \* an HTTP handler's response: status, and what raised if it failed
    sim_request,    \* the solver call made: A, B, and how B was built from A
    sim_result,      \* the solver's result: the transform, or the error raised
    processors,     \* app.py: the module globals get_processors fills, and the registry
    invocations     \* the concurrent requests: each one's position and what it got

(***************************************************************************)
(* Fixed-point scales.                                                     *)
(***************************************************************************)
DeltaScale == 1000
TenthScale == 10

Abs(n) == IF n < 0 THEN -n ELSE n

(***************************************************************************)
(* Characters.  Names used for the characters of the source's literals:    *)
(*   kanji    hana 鼻  sen 尖  saki 先  suji 筋  taka 高  me 目  oo 大       *)
(*            ago 顎  haba 幅  kuchibiru 唇  atsu 厚  hoho 頬  hitai 額      *)
(*            shita 下  abura 脂  bou 肪  kyuu 吸  hiku 引  ni 二  juu 重    *)
(*            hiro 広  shime 締  hoso 細  chii 小  usu 薄  sema 狭           *)
(*            tsuyo 強  do 度  suko 少  karu 軽  teki 適  fu 普  tsuu 通     *)
(*            hi_ 非  jou 常  kiwa 極                                       *)
(*   hiragana h_X (h_no の, h_sa さ, h_ki き, h_ku く, ...)                 *)
(*   katakana k_X (k_sa サ, k_i イ, k_zu ズ, ...)                           *)
(*   ASCII    the character itself ("s", "m", "M", "0".."9", "+", "-",     *)
(*            ".", "%", " "), "TAB" for a tab                              *)
(*   full-width digits "F0".."F9" (U+FF10..U+FF19), "ISP" U+3000           *)
(***************************************************************************)
AsciiDigits == <<"0", "1", "2", "3", "4", "5", "6", "7", "8", "9">>
FullWidthDigits == <<"F0", "F1", "F2", "F3", "F4", "F5", "F6", "F7", "F8", "F9">>

\* str.isspace characters that occur in the modelled texts (re's \s, str.strip)
Whitespace == {" ", "TAB", "ISP"}

\* Python's `kw in s` at a fixed offset: s[i .. i+len(kw)-1] = kw   (1-based i)
MatchAt(kw, s, i) ==
    /\ i >= 1
    /\ i + Len(kw) - 1 <= Len(s)
    /\ \A j \in 1..Len(kw) : s[i + j - 1] = kw[j]

\* Python's substring test `kw in s`
Contains(kw, s) ==
    \E i \in 1..(Len(s) - Len(kw) + 1) : s[i] = kw[1] /\ MatchAt(kw, s, i)

(***************************************************************************)
(* config.py: the Target Registry.                                         *)
(***************************************************************************)
\* Config._get_default_config()["targets"], in declaration order
get_targets ==
    << "nasal_tip_mm", "nasal_bridge_mm", "eye_size_ratio", "jaw_width_mm",
       "lip_thickness_mm", "cheek_contour_mm", "forehead_width_mm",
       "submental_fat_mm" >>

\* limits.max_delta_mm / limits.min_delta_mm of the default configuration
limits == [max_delta_mm |-> 4000, min_delta_mm |-> -4000]

\* Config.get_max_delta: the per-target table, limits.max_delta_mm otherwise
get_max_delta(target) ==
    CASE target = "nasal_tip_mm"      -> 3000
      [] target = "nasal_bridge_mm"   -> 2500
      [] target = "eye_size_ratio"    -> 300
      [] target = "jaw_width_mm"      -> 4000
      [] target = "lip_thickness_mm"  -> 2000
      [] target = "cheek_contour_mm"  -> 3500
      [] target = "forehead_width_mm" -> 5000
      [] target = "submental_fat_mm"  -> 3000
      [] OTHER                        -> limits.max_delta_mm

\* Config.get_min_delta
get_min_delta(target) ==
    CASE target = "nasal_tip_mm"      -> -3000
      [] target = "nasal_bridge_mm"   -> -2500
      [] target = "eye_size_ratio"    -> -300
      [] target = "jaw_width_mm"      -> -4000
      [] target = "lip_thickness_mm"  -> -2000
      [] target = "cheek_contour_mm"  -> -3500
      [] target = "forehead_width_mm" -> -5000
      [] target = "submental_fat_mm"  -> -3000
      [] OTHER                        -> limits.min_delta_mm

\* A validation that accepts every delta (the reject step lost).
validate_delta_AcceptAll(target, delta) == TRUE

\* Config.validate_delta: min_delta <= delta <= max_delta
validate_delta(target, delta) ==
    get_min_delta(target) <= delta /\ delta <= get_max_delta(target)

\* Config.get_target_params: the assumptions of the default configuration
\* hold no per-target radius or sigma, so the defaults 12.0 and 8.0 apply.
get_target_params(target) == [radius_mm |-> 12000, sigma_mm |-> 8000]

(***************************************************************************)
(* instruction_parser.py: the tables, in declaration (dict insertion)      *)
(* order.                                                                  *)
(***************************************************************************)
keyword_mapping ==
    << [keyword |-> <<"hana", "sen">>,                         target |-> "nasal_tip_mm"],
       [keyword |-> <<"hana", "saki">>,                        target |-> "nasal_tip_mm"],
       [keyword |-> <<"hana", "h_no", "saki">>,                target |-> "nasal_tip_mm"],
       [keyword |-> <<"hana", "suji">>,                        target |-> "nasal_bridge_mm"],
       [keyword |-> <<"hana", "h_no", "taka", "h_sa">>,        target |-> "nasal_bridge_mm"],
       [keyword |-> <<"me">>,                                  target |-> "eye_size_ratio"],
       [keyword |-> <<"me", "h_no", "k_sa", "k_i", "k_zu">>,   target |-> "eye_size_ratio"],
       [keyword |-> <<"me", "h_no", "oo", "h_ki", "h_sa">>,    target |-> "eye_size_ratio"],
       [keyword |-> <<"ago">>,                                 target |-> "jaw_width_mm"],
       [keyword |-> <<"ago", "haba">>,                         target |-> "jaw_width_mm"],
       [keyword |-> <<"h_a", "h_go">>,                         target |-> "jaw_width_mm"],
       [keyword |-> <<"kuchibiru">>,                           target |-> "lip_thickness_mm"],
       [keyword |-> <<"h_ku", "h_chi", "h_bi", "h_ru">>,       target |-> "lip_thickness_mm"],
       [keyword |-> <<"kuchibiru", "h_no", "atsu", "h_sa">>,   target |-> "lip_thickness_mm"],
       [keyword |-> <<"hoho">>,                                target |-> "cheek_contour_mm"],
       [keyword |-> <<"h_ho", "h_ho">>,                        target |-> "cheek_contour_mm"],
       [keyword |-> <<"h_ho", "h_o">>,                         target |-> "cheek_contour_mm"],
       [keyword |-> <<"hitai">>,                               target |-> "forehead_width_mm"],
       [keyword |-> <<"h_hi", "h_ta", "h_i">>,                 target |-> "forehead_width_mm"],
       [keyword |-> <<"ago", "shita">>,                        target |-> "submental_fat_mm"],
       [keyword |-> <<"ago", "shita", "abura", "bou">>,        target |-> "submental_fat_mm"],
       [keyword |-> <<"ago", "shita", "abura", "bou", "kyuu", "hiku">>,
                                                               target |-> "submental_fat_mm"],
       [keyword |-> <<"ni", "juu", "ago">>,                    target |-> "submental_fat_mm"],
       [keyword |-> <<"k_sa", "k_bu", "k_me", "k_n", "k_ta", "k_ru">>,
                                                               target |-> "submental_fat_mm"],
       [keyword |-> <<"s", "u", "b", "m", "e", "n", "t", "a", "l">>,
                                                               target |-> "submental_fat_mm"] >>

action_keywords ==
    << [keyword |-> <<"taka", "h_ku">>,             action |-> "increase", base |-> 10],
       [keyword |-> <<"taka">>,                     action |-> "increase", base |-> 10],
       [keyword |-> <<"oo", "h_ki", "h_ku">>,       action |-> "increase", base |-> 10],
       [keyword |-> <<"oo">>,                       action |-> "increase", base |-> 10],
       [keyword |-> <<"atsu", "h_ku">>,             action |-> "increase", base |-> 10],
       [keyword |-> <<"atsu">>,                     action |-> "increase", base |-> 10],
       [keyword |-> <<"hiro", "h_ku">>,             action |-> "increase", base |-> 10],
       [keyword |-> <<"hiro">>,                     action |-> "increase", base |-> 10],
       [keyword |-> <<"hiku", "h_ki", "shime", "h_me">>,
                                                    action |-> "decrease", base |-> 10],
       [keyword |-> <<"hoso", "h_ku">>,             action |-> "decrease", base |-> 10],
       [keyword |-> <<"hoso">>,                     action |-> "decrease", base |-> 10],
       [keyword |-> <<"chii", "h_sa", "h_ku">>,     action |-> "decrease", base |-> 10],
       [keyword |-> <<"chii">>,                     action |-> "decrease", base |-> 10],
       [keyword |-> <<"usu", "h_ku">>,              action |-> "decrease", base |-> 10],
       [keyword |-> <<"usu">>,                      action |-> "decrease", base |-> 10],
       [keyword |-> <<"sema", "h_ku">>,             action |-> "decrease", base |-> 10],
       [keyword |-> <<"sema">>,                     action |-> "decrease", base |-> 10],
       [keyword |-> <<"kyuu", "hiku">>,             action |-> "decrease", base |-> 10] >>

\* multipliers in tenths
intensity_keywords ==
    << [keyword |-> <<"suko", "h_shi">>,                    multiplier |-> 3],
       [keyword |-> <<"karu", "h_ku">>,                     multiplier |-> 3],
       [keyword |-> <<"h_chi", "h_yo", "h_tsu", "h_to">>,   multiplier |-> 4],
       [keyword |-> <<"teki", "do", "h_ni">>,               multiplier |-> 5],
       [keyword |-> <<"fu", "tsuu", "h_ni">>,               multiplier |-> 5],
       [keyword |-> <<"h_ka", "h_na", "h_ri">>,             multiplier |-> 7],
       [keyword |-> <<"tsuyo", "h_ku">>,                    multiplier |-> 8],
       [keyword |-> <<"h_to", "h_te", "h_mo">>,             multiplier |-> 8],
       [keyword |-> <<"hi_", "jou", "h_ni">>,               multiplier |-> 9],
       [keyword |-> <<"kiwa", "h_me", "h_te">>,             multiplier |-> 10] >>

PLUS_WORD == <<"k_pu", "k_ra", "k_su">>          \* the literal 'プラス'
MINUS_WORD == <<"k_ma", "k_i", "k_na", "k_su">>  \* the literal 'マイナス'

(***************************************************************************)
(* A str argument is [kind |-> "str", chars |-> <<...>>]; any other        *)
(* argument (None, a number, ...) is [kind |-> "other", chars |-> <<>>].   *)
(***************************************************************************)
Str(chars) == [kind |-> "str", chars |-> chars]
NonStr == [kind |-> "other", chars |-> <<>>]

IndexOf(c, seq) == IF \E i \in 1..Len(seq) : seq[i] = c
                   THEN CHOOSE i \in 1..Len(seq) : seq[i] = c
                   ELSE 0

\* str.translate(str.maketrans('０１２３４５６７８９', '0123456789')) on one character
FullWidthSet == { FullWidthDigits[i] : i \in 1..10 }
TranslateDigit(c) ==
    IF c \in FullWidthSet THEN AsciiDigits[IndexOf(c, FullWidthDigits)] ELSE c

\* str.strip(): drop leading and trailing whitespace
RECURSIVE LStrip(_)
LStrip(s) == IF Len(s) > 0 /\ Head(s) \in Whitespace THEN LStrip(Tail(s)) ELSE s
RECURSIVE RStrip(_)
RStrip(s) == IF Len(s) > 0 /\ s[Len(s)] \in Whitespace
             THEN RStrip(SubSeq(s, 1, Len(s) - 1)) ELSE s
Strip(s) == RStrip(LStrip(s))

\* re.sub(r'\s+', ' ', s): every maximal run of whitespace becomes one ' '
RECURSIVE CollapseWs(_)
CollapseWs(s) ==
    IF Len(s) = 0 THEN <<>>
    ELSE IF Head(s) \in Whitespace
         THEN <<" ">> \o CollapseWs(LStrip(s))
         ELSE <<Head(s)>> \o CollapseWs(Tail(s))

\* InstructionParser._normalize_instruction; .translate raises on a non-str
_normalize_instruction(instr) ==
    IF instr.kind = "str"
    THEN [raised |-> FALSE,
          value  |-> CollapseWs(Strip([i \in 1..Len(instr.chars) |->
                                          TranslateDigit(instr.chars[i])]))]
    ELSE [raised |-> TRUE, value |-> <<>>]

\* InstructionParser._get_default_delta: max_delta * default_ratio, negated
\* for "decrease" (default_ratios in tenths, 0.5 for an unlisted target)
\* Default ratios above 1 (120% of the maximum for every target).
default_ratios_AboveOne(target) == 12

default_ratios(target) ==
    CASE target = "nasal_tip_mm"      -> 6
      [] target = "nasal_bridge_mm"   -> 5
      [] target = "eye_size_ratio"    -> 3
      [] target = "jaw_width_mm"      -> 7
      [] target = "lip_thickness_mm"  -> 5
      [] target = "cheek_contour_mm"  -> 6
      [] target = "forehead_width_mm" -> 8
      [] target = "submental_fat_mm"  -> 6
      [] OTHER                        -> 5

_get_default_delta(target, action_type) ==
    LET delta == (get_max_delta(target) * default_ratios(target)) \div TenthScale
    IN  IF action_type = "decrease" THEN -delta ELSE delta

\* the first entry of a table (in order) whose keyword is in the text; 0 if none
RECURSIVE FirstContainedFrom(_, _, _)
FirstContainedFrom(k, table, text) ==
    IF k > Len(table) THEN 0
    ELSE IF Contains(table[k].keyword, text) THEN k
    ELSE FirstContainedFrom(k + 1, table, text)

FirstContained(table, text) == FirstContainedFrom(1, table, text)

\* An inference in which a decrease word wins over an increase word.
ActionFound_DecreaseWins(text) ==
    IF \E k \in 1..Len(action_keywords) :
          action_keywords[k].action = "decrease" /\ Contains(action_keywords[k].keyword, text)
    THEN "decrease"
    ELSE IF FirstContained(action_keywords, text) > 0 THEN "increase"
    ELSE IF Contains(<<"+">>, text) \/ Contains(PLUS_WORD, text) THEN "increase"
    ELSE IF Contains(<<"-">>, text) \/ Contains(MINUS_WORD, text) THEN "decrease"
    ELSE "increase"

\* lines 147-162: the action of the text, the same for every matched target
ActionFound(text) ==
    LET k == FirstContained(action_keywords, text)
    IN  IF k > 0 THEN action_keywords[k].action
        ELSE IF Contains(<<"+">>, text) \/ Contains(PLUS_WORD, text) THEN "increase"
        ELSE IF Contains(<<"-">>, text) \/ Contains(MINUS_WORD, text) THEN "decrease"
        ELSE "increase"

\* a parser that ignores the intensity adverbs
IntensityMultiplier_Ignored(text) == TenthScale

\* lines 168-172: the first intensity adverb of the table in the text, else 1.0
IntensityMultiplier(text) ==
    LET k == FirstContained(intensity_keywords, text)
    IN  IF k > 0 THEN intensity_keywords[k].multiplier ELSE 10

\* lines 174-185: the operation emitted for one matching keyword-table entry
MakeOperation(entry, text) ==
    LET action_type == ActionFound(text)
        intensity_multiplier == IntensityMultiplier(text)
    IN
    [ target               |-> entry.target,
      delta_mm             |-> (_get_default_delta(entry.target, action_type)
                                  * intensity_multiplier) \div TenthScale,
      action_type          |-> action_type,
      intensity_multiplier |-> intensity_multiplier,
      keyword_found        |-> entry.keyword,
      action_found         |-> action_type,
      value_type           |-> "none",      \* keys set only by a numeric override
      numerical_value      |-> 0,
      has_params           |-> FALSE,       \* radius_mm / sigma_mm not attached yet
      radius_mm            |-> 0,
      sigma_mm             |-> 0 ]

\* A scan that emits one operation per target: an entry is skipped when an
\* earlier entry of the same target is contained in the text.
RECURSIVE ExtractFrom_OnePerTarget(_, _)
ExtractFrom_OnePerTarget(k, text) ==
    IF k > Len(keyword_mapping) THEN <<>>
    ELSE (IF /\ Contains(keyword_mapping[k].keyword, text)
             /\ ~\E j \in 1..(k - 1) :
                    /\ keyword_mapping[j].target = keyword_mapping[k].target
                    /\ Contains(keyword_mapping[j].keyword, text)
          THEN <<MakeOperation(keyword_mapping[k], text)>> ELSE <<>>)
         \o ExtractFrom_OnePerTarget(k + 1, text)

\* InstructionParser._extract_operations: one operation per keyword-table
\* entry contained in the text, in table order
RECURSIVE ExtractFrom(_, _)
ExtractFrom(k, text) ==
    IF k > Len(keyword_mapping) THEN <<>>
    ELSE (IF Contains(keyword_mapping[k].keyword, text)
          THEN <<MakeOperation(keyword_mapping[k], text)>> ELSE <<>>)
         \o ExtractFrom(k + 1, text)

\* the first position of a keyword in the text
RECURSIVE FirstIndexFrom(_, _, _)
FirstIndexFrom(i, kw, text) ==
    IF i > Len(text) THEN 0
    ELSE IF MatchAt(kw, text, i) THEN i
    ELSE FirstIndexFrom(i + 1, kw, text)

\* a parser that emits the operations in the order their keywords occur in
\* the text
_extract_operations_TextOrder(text) ==
    SortSeq(ExtractFrom(1, text),
            LAMBDA a, b : FirstIndexFrom(1, a.keyword_found, text)
                            < FirstIndexFrom(1, b.keyword_found, text))

_extract_operations(text) == ExtractFrom(1, text)

(***************************************************************************)
(* The regular expressions of _extract_numerical_values, matched as        *)
(* re.findall matches them: left to right, non-overlapping, each attempt   *)
(* greedy.  (The patterns end in a literal, so a greedy attempt fails only *)
(* where every backtracking attempt fails too.)                            *)
(***************************************************************************)
\* \d of a str pattern matches the ASCII and the full-width digits
DigitChars == { AsciiDigits[i] : i \in 1..10 } \cup { FullWidthDigits[i] : i \in 1..10 }
DigitValues == [c \in DigitChars |->
                  IF IndexOf(c, AsciiDigits) > 0 THEN IndexOf(c, AsciiDigits) - 1
                  ELSE IndexOf(c, FullWidthDigits) - 1]
IsDigit(c) == c \in DigitChars
DigitVal(c) == DigitValues[c]

\* the index after the maximal run of digits that starts at i  (\d+ or \d*)
RECURSIVE DigitsEnd(_, _)
DigitsEnd(s, i) == IF i <= Len(s) /\ IsDigit(s[i]) THEN DigitsEnd(s, i + 1) ELSE i

\* the index after the maximal run of whitespace that starts at i  (\s*)
RECURSIVE WsEnd(_, _)
WsEnd(s, i) == IF i <= Len(s) /\ s[i] \in Whitespace THEN WsEnd(s, i + 1) ELSE i

\* int() of the digits s[i..j-1]
RECURSIVE IntOf(_, _, _)
IntOf(s, i, j) == IF j <= i THEN 0 ELSE IntOf(s, i, j - 1) * 10 + DigitVal(s[j - 1])

\* the fraction 0.d1d2d3... of the digits s[i..j-1], in thousandths
\* (digits after the third are below the model's resolution)
FracOf(s, i, j) ==
    (IF i     < j THEN DigitVal(s[i])     * 100 ELSE 0) +
    (IF i + 1 < j THEN DigitVal(s[i + 1]) * 10  ELSE 0) +
    (IF i + 2 < j THEN DigitVal(s[i + 2])       ELSE 0)

\* (?:\.\d+)? after the integer digits that end at e1
HasFraction(s, e1) ==
    /\ e1 + 1 <= Len(s)
    /\ s[e1] = "."
    /\ IsDigit(s[e1 + 1])

NumberEnd(s, e1) == IF HasFraction(s, e1) THEN DigitsEnd(s, e1 + 1) ELSE e1

\* float() of the match s[i..NumberEnd-1], in thousandths
NumberValue(s, i, e1) ==
    IntOf(s, i, e1) * DeltaScale
        + (IF HasFraction(s, e1) THEN FracOf(s, e1 + 1, NumberEnd(s, e1)) ELSE 0)

NumberWith(s, i, e1) ==
    [ok |-> e1 > i, end |-> NumberEnd(s, e1), value |-> NumberValue(s, i, e1)]

\* \d+(?:\.\d+)? at i: [ok, end (index after the match), value]
NumberAt(s, i) == NumberWith(s, i, DigitsEnd(s, i))

\* [+-]? at i
IsSigned(s, i) == i <= Len(s) /\ s[i] \in {"+", "-"}

WithSign(n, negative) ==
    [ok |-> n.ok, end |-> n.end, value |-> IF negative THEN -n.value ELSE n.value]

\* [+-]?\d+(?:\.\d+)? at i
SignedNumberAt(s, i) ==
    WithSign(NumberAt(s, IF IsSigned(s, i) THEN i + 1 ELSE i),
             IsSigned(s, i) /\ s[i] = "-")

\* mm after the number n and the whitespace that ends at w (re.IGNORECASE)
MmUnit(s, n, w) ==
    [ ok    |-> /\ n.ok
                /\ w + 1 <= Len(s)
                /\ s[w] \in {"m", "M"}
                /\ s[w + 1] \in {"m", "M"},
      end   |-> w + 2,
      value |-> n.value ]

MmAfter(s, n) == MmUnit(s, n, WsEnd(s, n.end))

\* mm_pattern  ([+-]?\d+(?:\.\d+)?)\s*mm   at i
MmAt(s, i) == MmAfter(s, SignedNumberAt(s, i))

\* % after the number n and the whitespace that ends at w
RatioUnit(s, n, w) ==
    [ok |-> n.ok /\ w <= Len(s) /\ s[w] = "%", end |-> w + 1, value |-> n.value]

RatioAfter(s, n) == RatioUnit(s, n, WsEnd(s, n.end))

\* ratio_pattern  ([+-]?\d+(?:\.\d+)?)\s*%   at i
RatioAt(s, i) == RatioAfter(s, SignedNumberAt(s, i))

\* the second alternative: the number n2, whitespace to w2, then 強度
IntensitySuffix(s, n2, w2) ==
    [ ok    |-> n2.ok /\ MatchAt(<<"tsuyo", "do">>, s, w2),
      end   |-> w2 + 2,
      value |-> n2.value ]

\* the first alternative (強度, whitespace, the number n1), else the second
IntensityChoice(s, i, n1, n2) ==
    IF MatchAt(<<"tsuyo", "do">>, s, i) /\ n1.ok
    THEN [ok |-> TRUE, end |-> n1.end, value |-> n1.value]
    ELSE IntensitySuffix(s, n2, WsEnd(s, n2.end))

\* intensity_pattern  強度\s*(\d+(?:\.\d+)?)|(\d+(?:\.\d+)?)\s*強度   at i
IntensityAt(s, i) ==
    IntensityChoice(s, i, NumberAt(s, WsEnd(s, i + 2)), NumberAt(s, i))

\* re.findall: the values of the successive matches from position i on; m is
\* the attempt at i
RECURSIVE MmFindall(_, _)
MmNext(s, i, m) ==
    IF m.ok THEN <<m.value>> \o MmFindall(s, m.end) ELSE MmFindall(s, i + 1)

MmFindall(s, i) == IF i > Len(s) THEN <<>> ELSE MmNext(s, i, MmAt(s, i))

RECURSIVE RatioFindall(_, _)
RatioNext(s, i, m) ==
    IF m.ok THEN <<m.value>> \o RatioFindall(s, m.end) ELSE RatioFindall(s, i + 1)

RatioFindall(s, i) == IF i > Len(s) THEN <<>> ELSE RatioNext(s, i, RatioAt(s, i))

RECURSIVE IntensityFindall(_, _)
IntensityNext(s, i, m) ==
    IF m.ok THEN <<m.value>> \o IntensityFindall(s, m.end)
    ELSE IntensityFindall(s, i + 1)

IntensityFindall(s, i) ==
    IF i > Len(s) THEN <<>> ELSE IntensityNext(s, i, IntensityAt(s, i))

\* the matches of one pattern as (type, value) pairs
Tagged(type, matches) ==
    [i \in 1..Len(matches) |-> [type |-> type, value |-> matches[i]]]

\* A list that puts the percentage matches before the millimetre matches.
all_numerical_values_RatioFirst(s) ==
    Tagged("ratio", RatioFindall(s, 1))
        \o Tagged("mm", MmFindall(s, 1))
        \o Tagged("intensity", IntensityFindall(s, 1))

\* lines 205-213: all_numerical_values; a value is [type, value] with
\*   "mm"        value in thousandths of a mm,
\*   "ratio"     float(match) / 100.0, kept as the percentage in thousandths,
\*   "intensity" float(match) / 10.0, kept as N in thousandths
all_numerical_values(s) ==
    Tagged("mm", MmFindall(s, 1))
        \o Tagged("ratio", RatioFindall(s, 1))
        \o Tagged("intensity", IntensityFindall(s, 1))

\* the float product (value / divisor) * max_delta in thousandths; exact for
\* every value the modelled texts contain (max_delta is a multiple of 0.1)
ScaleBy(value, max_delta, divisor) ==
    IF value < 0 THEN -((-value * (max_delta \div 100)) \div (divisor \div 100))
    ELSE (value * (max_delta \div 100)) \div (divisor \div 100)

\* InstructionParser._convert_value_to_delta
\*   mm:        value
\*   ratio:     (percent / 100) * max_delta
\*   intensity: (N / 10) * max_delta
_convert_value_to_delta(target, value, value_type) ==
    IF value_type = "mm" THEN value
    ELSE IF value_type = "ratio"
         THEN ScaleBy(value, get_max_delta(target), 100 * DeltaScale)
    ELSE IF value_type = "intensity"
         THEN ScaleBy(value, get_max_delta(target), 10 * DeltaScale)
    ELSE value

\* An _extract_numerical_values that finds no number: the operations keep
\* their keyword defaults.
_extract_numerical_values_NoOverride(chars, ops) == ops

\* An override that reaches every operation of the list.
Override_EveryOperation(ops, v) ==
    [i \in 1..Len(ops) |->
        [ops[i] EXCEPT !.delta_mm = _convert_value_to_delta(ops[i].target, v.value, v.type),
                       !.numerical_value = v.value,
                       !.value_type = v.type]]

\* lines 217-223: the value v overrides the delta of the first operation
Override(ops, v) ==
    [ops EXCEPT ![1] =
        [@ EXCEPT !.delta_mm = _convert_value_to_delta(ops[1].target, v.value, v.type),
                  !.numerical_value = v.value,
                  !.value_type = v.type]]

\* An override by the last numeric value of the list.
ApplyFirstValue_Last(values, ops) ==
    IF Len(values) > 0 /\ Len(ops) > 0 THEN Override(ops, values[Len(values)]) ELSE ops

\* lines 215-225: if all_numerical_values and operations
ApplyFirstValue(values, ops) ==
    IF Len(values) > 0 /\ Len(ops) > 0 THEN Override(ops, values[1]) ELSE ops

\* InstructionParser._extract_numerical_values: the first numeric value
\* (mm matches first, then ratio, then intensity) overrides the delta of the
\* first operation; the text scanned is the original, not the normalized one
_extract_numerical_values(chars, ops) ==
    ApplyFirstValue(all_numerical_values(chars), ops)

\* InstructionParser._validate_and_normalize_operations: keep the operations
\* whose delta is in range and attach radius_mm and sigma_mm to them
_validate_and_normalize_operations(ops) ==
    LET valid(op) == validate_delta(op.target, op.delta_mm)
        kept == SelectSeq(ops, valid)
    IN  [i \in 1..Len(kept) |->
            [kept[i] EXCEPT !.has_params = TRUE,
                            !.radius_mm = get_target_params(kept[i].target).radius_mm,
                            !.sigma_mm = get_target_params(kept[i].target).sigma_mm]]

\* A parse_instruction without its try/except: the exception escapes.
parse_instruction_NoTry(instr) ==
    LET n == _normalize_instruction(instr)
    IN  IF n.raised THEN [error |-> TRUE, ops |-> <<>>]
        ELSE [error |-> FALSE,
              ops |-> _validate_and_normalize_operations(
                         _extract_numerical_values(instr.chars,
                                                   _extract_operations(n.value)))]

\* InstructionParser.parse_instruction: normalize, extract, override,
\* validate; any exception is caught and [] returned (lines 125-127)
parse_instruction(instr) ==
    LET n == _normalize_instruction(instr)
    IN  IF n.raised THEN [error |-> FALSE, ops |-> <<>>]
        ELSE [error |-> FALSE,
              ops |-> _validate_and_normalize_operations(
                         _extract_numerical_values(instr.chars,
                                                   _extract_operations(n.value)))]

(***************************************************************************)
(* The instructions the model passes to parse_instruction: every           *)
(* concatenation of at most MaxTokens fragments of Vocabulary, and one     *)
(* argument that is not a str.                                             *)
(***************************************************************************)
MaxTokens == 3

Vocabulary ==
    { <<"hana", "sen">>,                                   \* 鼻尖
      <<"me">>,                                            \* 目
      <<"ago">>,                                           \* 顎
      <<"shita">>,                                         \* 下 (顎 + 下 = 顎下)
      <<"h_no", "oo", "h_ki", "h_sa">>,                    \* の大きさ (目 + の大きさ)
      <<"h_wo", "oo", "h_ki", "h_ku", "h_su", "h_ru">>,    \* を大きくする
      <<"h_wo", "hoso", "h_ku", "h_su", "h_ru">>,          \* を細くする
      <<"suko", "h_shi">>,                                 \* 少し
      <<" ", "+", "1", ".", "8", "m", "m">>,               \* " +1.8mm"
      <<" ", "-", "3", "m", "m">>,                         \* " -3mm"
      <<" ", "5", "0", "%">>,                              \* " 50%"
      <<" ", "tsuyo", "do", "3">>,                         \* " 強度3"
      <<"x", "F2", "M", "m">> }                            \* "x２Mm" (full-width 2)

RECURSIVE Flatten(_)
Flatten(ts) == IF Len(ts) = 0 THEN <<>> ELSE Head(ts) \o Flatten(Tail(ts))

Texts == { Flatten(ts) : ts \in UNION { [1..n -> Vocabulary] : n \in 0..MaxTokens } }

Instructions == { Str(t) : t \in Texts } \cup { NonStr }

\* The fragments of the texts that are parsed in two orders.
ReorderVocabulary ==
    { <<"hana", "sen">>,                                   \* 鼻尖
      <<"me">>,                                            \* 目
      <<"ago">>,                                           \* 顎
      <<"h_wo", "hoso", "h_ku", "h_su", "h_ru">>,          \* を細くする
      <<"suko", "h_shi">>,                                 \* 少し
      <<" ", "+", "1", ".", "8", "m", "m">>,               \* " +1.8mm"
      <<" ", "-", "3", "m", "m">>,                         \* " -3mm"
      <<" ", "5", "0", "%">> }                             \* " 50%"

\* The fragments of the texts with which the numeric override is exercised:
\* target keywords and numbers of the three pattern types.
OverrideVocabulary ==
    { <<"hana", "sen">>,                                   \* 鼻尖
      <<"me">>,                                            \* 目
      <<"ago">>,                                           \* 顎
      <<" ", "+", "1", ".", "8", "m", "m">>,               \* " +1.8mm"
      <<" ", "-", "3", "m", "m">>,                         \* " -3mm"
      <<" ", "5", "0", "%">>,                              \* " 50%"
      <<" ", "tsuyo", "do", "3">>,                         \* " 強度3"
      <<"x", "F2", "M", "m">> }                            \* "x２Mm" (full-width 2)

OverrideInstructions ==
    { Str(Flatten(ts)) : ts \in UNION { [1..n -> OverrideVocabulary] : n \in 0..MaxTokens } }

ReorderSequences == UNION { [1..n -> ReorderVocabulary] : n \in 0..MaxTokens }

Reverse(s) == [i \in 1..Len(s) |-> s[Len(s) + 1 - i]]

(***************************************************************************)
(* mesh_editor.py: the Mesh Deformation Engine.                            *)
(*                                                                         *)
(* A mesh value is [vertices |-> [0..n-1 -> <<x, y, z>>], faces |-> seq].  *)
(* Coordinates are in ten-thousandths, so that a delta in thousandths      *)
(* times the attenuation 0.1 is a whole number of coordinate units.        *)
(*                                                                         *)
(* Python passes meshes by reference.  A frame [cur, alias, arg] is the    *)
(* mesh a method holds (cur), whether that object is the very object the   *)
(* outermost caller passed in (alias), and the current value of the        *)
(* caller's object (arg).  mesh.copy() gives a frame that is not aliased;  *)
(* a write through an aliased frame changes the caller's object.           *)
(***************************************************************************)
Range(a, b) == a..(b - 1)          \* Python's range(a, b)

\* MeshEditor._define_face_regions
face_regions ==
    [ nose_tip      |-> Range(1, 10),
      nose_bridge   |-> Range(168, 175),
      left_eye      |-> Range(33, 42),
      right_eye     |-> Range(362, 373),
      left_eyebrow  |-> Range(70, 76),
      right_eyebrow |-> Range(300, 307),
      mouth_outer   |-> Range(61, 84),
      mouth_inner   |-> Range(78, 95),
      jaw_line      |-> Range(172, 199),
      left_cheek    |-> Range(116, 140),
      right_cheek   |-> Range(345, 359),
      forehead      |-> Range(10, 22),
      chin          |-> Range(175, 185) ]

\* self.face_regions.get(region_name, [])
RegionIndices(region_name) ==
    IF region_name \in DOMAIN face_regions THEN face_regions[region_name] ELSE {}

NumVertices(m) == Cardinality(DOMAIN m.vertices)     \* len(mesh.vertices)

Frame(cur, alias, arg) == [cur |-> cur, alias |-> alias, arg |-> arg]

\* A copy that keeps the topology and loses the positions.
Copy_AtOrigin(w) ==
    Frame([w.cur EXCEPT !.vertices = [i \in DOMAIN w.cur.vertices |-> <<0, 0, 0>>]],
          FALSE, w.arg)

\* mesh.copy(): a new object with the same vertices and faces
Copy(w) == Frame(w.cur, FALSE, w.arg)

\* an in-place write of new vertices to the mesh a frame holds
WriteVertices(w, vs) ==
    LET m == [w.cur EXCEPT !.vertices = vs]
    IN  Frame(m, w.alias, IF w.alias THEN m ELSE w.arg)

\* A Python value of an operation field: absent, a number (thousandths) or
\* something that is not a number (a str, None, a list).
Absent == [tag |-> "absent", n |-> 0]
Num(n) == [tag |-> "num", n |-> n]
NotNum == [tag |-> "other", n |-> 0]

\* An operation handed to the engine: a dict with the keys the engine reads,
\* or an object that is not a dict.
OpDict(target, delta_mm, value) ==
    [isdict |-> TRUE, target |-> target, delta_mm |-> delta_mm, value |-> value]
OpNotDict == [isdict |-> FALSE, target |-> "", delta_mm |-> Absent, value |-> Absent]

\* the hardcoded table of MeshEditor._clamp_value, in thousandths
clamp_limits ==
    [ nasal_tip_mm      |-> <<-1000, 1000>>,
      nasal_bridge_mm   |-> <<-1000, 1000>>,
      eye_size_ratio    |-> <<-100, 100>>,
      jaw_width_mm      |-> <<-2000, 2000>>,
      lip_thickness_mm  |-> <<-1000, 1000>>,
      cheek_contour_mm  |-> <<-1500, 1500>>,
      forehead_width_mm |-> <<-1500, 1500>> ]

Max(a, b) == IF a >= b THEN a ELSE b
Min(a, b) == IF a <= b THEN a ELSE b

\* MeshEditor._clamp_value: max(min_val, min(max_val, value)) for a target of
\* the table (a TypeError when value is not a number), value itself otherwise
_clamp_value(target, value) ==
    IF target \in DOMAIN clamp_limits
    THEN IF value.tag = "num"
         THEN [raised |-> FALSE,
               value  |-> Num(Max(clamp_limits[target][1],
                                  Min(clamp_limits[target][2], value.n)))]
         ELSE [raised |-> TRUE, value |-> value]
    ELSE [raised |-> FALSE, value |-> value]

\* A displacement added to the vertices as it is, without the factor 0.1.
ScaledDisplacement_Unattenuated(displacement) ==
    [k \in 1..3 |-> displacement[k] * TenthScale]

\* line 248: scaled_displacement = displacement_vector * 0.1
AttenuationTenths == 1
ScaledDisplacement(displacement) ==
    [k \in 1..3 |-> displacement[k] * AttenuationTenths]

\* A _deform_region that adds the displacement to every vertex of the mesh
\* (vertices += d) where the code indexes with valid_indices.
_deform_region_WholeMesh(w, region_name, displacement, fault) ==
    LET region_indices == RegionIndices(region_name)
        deformed == Copy(w)
        d == ScaledDisplacement(displacement)
    IN  IF region_indices = {} \/ fault THEN w
        ELSE WriteVertices(deformed,
                [idx \in DOMAIN deformed.cur.vertices |->
                    [k \in 1..3 |-> deformed.cur.vertices[idx][k] + d[k]]])

\* A _deform_region that assigns the displaced region to mesh.vertices
\* (vertices = vertices[valid_indices] + d) where the code adds in place.
_deform_region_Reassign(w, region_name, displacement, fault) ==
    LET region_indices == RegionIndices(region_name)
        deformed == Copy(w)
        n == NumVertices(deformed.cur)
        valid_indices == { idx \in region_indices : idx < n }
        d == ScaledDisplacement(displacement)
    IN  IF region_indices = {} \/ fault THEN w
        ELSE IF valid_indices # {}
             THEN WriteVertices(deformed,
                     [idx \in valid_indices |->
                         [k \in 1..3 |-> deformed.cur.vertices[idx][k] + d[k]]])
             ELSE deformed

\* MeshEditor._deform_region.  fault = TRUE: a statement of the try block
\* raises (the copy, the array arithmetic), and the except clause returns the
\* mesh that was passed in.
_deform_region(w, region_name, displacement, fault) ==
    LET region_indices == RegionIndices(region_name)
        deformed == Copy(w)
        n == NumVertices(deformed.cur)
        valid_indices == { idx \in region_indices : idx < n }
        d == ScaledDisplacement(displacement)
    IN  IF region_indices = {} THEN w
        ELSE IF fault THEN w
        ELSE IF valid_indices # {}
             THEN WriteVertices(deformed,
                     [idx \in DOMAIN deformed.cur.vertices |->
                         IF idx \in valid_indices
                         THEN [k \in 1..3 |-> deformed.cur.vertices[idx][k] + d[k]]
                         ELSE deformed.cur.vertices[idx]])
             ELSE deformed

\* MeshEditor._deform_nose_tip .. _deform_forehead_width.  fault = 0: no
\* exception; fault = k: the k-th call of _deform_region raises inside.
_deform_nose_tip(w, value, fault) ==
    _deform_region(w, "nose_tip", <<0, 0, value>>, fault = 1)

_deform_nose_bridge(w, value, fault) ==
    _deform_region(w, "nose_bridge", <<0, value, 0>>, fault = 1)

_deform_eye_size(w, value, fault) ==
    LET left_eye_mesh == _deform_region(w, "left_eye", <<value, 0, 0>>, fault = 1)
    IN  _deform_region(left_eye_mesh, "right_eye", <<-value, 0, 0>>, fault = 2)

_deform_jaw_width(w, value, fault) ==
    _deform_region(w, "jaw_line", <<value, 0, 0>>, fault = 1)

_deform_lip_thickness(w, value, fault) ==
    _deform_region(w, "mouth_outer", <<0, 0, value>>, fault = 1)

_deform_cheek_contour(w, value, fault) ==
    LET left_cheek == _deform_region(w, "left_cheek", <<value, 0, 0>>, fault = 1)
    IN  _deform_region(left_cheek, "right_cheek", <<-value, 0, 0>>, fault = 2)

_deform_forehead_width(w, value, fault) ==
    _deform_region(w, "forehead", <<value, 0, 0>>, fault = 1)

\* An _apply_operation with a handler for submental_fat_mm (the chin region
\* along Y) where the code has none.
_apply_operation_SubmentalHandled(w, operation, fault) ==
    IF ~operation.isdict THEN w
    ELSE LET target == operation.target
             raw == IF operation.delta_mm.tag # "absent" THEN operation.delta_mm
                    ELSE IF operation.value.tag # "absent" THEN operation.value
                    ELSE Num(0)
             c == _clamp_value(target, raw)
             value == c.value.n
         IN  IF c.raised THEN w
             ELSE IF target = "nasal_tip_mm"      THEN _deform_nose_tip(w, value, fault)
             ELSE IF target = "nasal_bridge_mm"   THEN _deform_nose_bridge(w, value, fault)
             ELSE IF target = "eye_size_ratio"    THEN _deform_eye_size(w, value, fault)
             ELSE IF target = "jaw_width_mm"      THEN _deform_jaw_width(w, value, fault)
             ELSE IF target = "lip_thickness_mm"  THEN _deform_lip_thickness(w, value, fault)
             ELSE IF target = "cheek_contour_mm"  THEN _deform_cheek_contour(w, value, fault)
             ELSE IF target = "forehead_width_mm" THEN _deform_forehead_width(w, value, fault)
             ELSE IF target = "submental_fat_mm"
                  THEN _deform_region(w, "chin", <<0, value, 0>>, FALSE)
             ELSE w

\* MeshEditor._apply_operation: read the fields (operation.get raises on an
\* object that is not a dict), clamp, dispatch on the target; any exception
\* is caught and the mesh passed in is returned
_apply_operation(w, operation, fault) ==
    IF ~operation.isdict THEN w
    ELSE LET target == operation.target
             raw == IF operation.delta_mm.tag # "absent" THEN operation.delta_mm
                    ELSE IF operation.value.tag # "absent" THEN operation.value
                    ELSE Num(0)
             c == _clamp_value(target, raw)
             value == c.value.n
         IN  IF c.raised THEN w
             ELSE IF target = "nasal_tip_mm"      THEN _deform_nose_tip(w, value, fault)
             ELSE IF target = "nasal_bridge_mm"   THEN _deform_nose_bridge(w, value, fault)
             ELSE IF target = "eye_size_ratio"    THEN _deform_eye_size(w, value, fault)
             ELSE IF target = "jaw_width_mm"      THEN _deform_jaw_width(w, value, fault)
             ELSE IF target = "lip_thickness_mm"  THEN _deform_lip_thickness(w, value, fault)
             ELSE IF target = "cheek_contour_mm"  THEN _deform_cheek_contour(w, value, fault)
             ELSE IF target = "forehead_width_mm" THEN _deform_forehead_width(w, value, fault)
             ELSE w

\* A loop that applies every operation to the first copy instead of the
\* running result (edited_mesh = self._apply_operation(copy, operation)): the
\* mesh returned carries the last operation only.
ApplyFrom_EachOnCopy(w, ops, faults, i) ==
    IF Len(ops) = 0 THEN w
    ELSE _apply_operation(w, ops[Len(ops)], faults[Len(ops)])

\* the loop of edit_mesh (lines 66-68) from operation i on
RECURSIVE ApplyFrom(_, _, _, _)
ApplyFrom(w, ops, faults, i) ==
    IF i > Len(ops) THEN w
    ELSE ApplyFrom(_apply_operation(w, ops[i], faults[i]), ops, faults, i + 1)

\* An argument of edit_mesh that is a list, or one that cannot be iterated.
OpList(ops) == [islist |-> TRUE, ops |-> ops]
NotAList == [islist |-> FALSE, ops |-> <<>>]

\* MeshEditor.edit_mesh(mesh, operations): copy the mesh, apply each
\* operation in turn; an exception of the loop itself (operations is not
\* iterable) is caught and the mesh passed in is returned.  The result is the
\* frame of the returned mesh.
edit_mesh(m, ops_arg, faults) ==
    LET w0 == Frame(m, TRUE, m)
        copied == Copy(w0)
    IN  IF ~ops_arg.islist THEN w0
        ELSE ApplyFrom(copied, ops_arg.ops, faults, 1)

(***************************************************************************)
(* The handlers registered in MeshEditor.editing_operations.  They take    *)
(* (mesh, intensity), intensity in tenths, write to mesh.vertices in place *)
(* and return the mesh they were given.                                    *)
(***************************************************************************)
\* MeshEditor._get_region_vertices: the valid indices of the named regions
_get_region_vertices(m, region_names) ==
    { idx \in UNION { RegionIndices(r) : r \in region_names } : idx < NumVertices(m) }

\* the sum of coordinate k over the vertices whose index is in idxs
RECURSIVE SumRange(_, _, _, _, _)
SumRange(vs, idxs, lo, hi, k) ==
    IF lo > hi THEN 0
    ELSE IF lo = hi THEN (IF lo \in idxs THEN vs[lo][k] ELSE 0)
    ELSE SumRange(vs, idxs, lo, (lo + hi) \div 2, k)
         + SumRange(vs, idxs, ((lo + hi) \div 2) + 1, hi, k)

SumOver(vs, idxs, k) == SumRange(vs, idxs, 0, Cardinality(DOMAIN vs) - 1, k)

\* center + (v - center) * (num / den) with center = total / n, rounded to
\* the coordinate resolution
ScaleAbout(v, total, n, num, den) == (total * den + (n * v - total) * num) \div (den * n)

\* _edit_nose_height: z += intensity * 0.1 on nose_tip and nose_bridge
_edit_nose_height(w, intensity) ==
    LET nose_vertices == _get_region_vertices(w.cur, {"nose_tip", "nose_bridge"})
        vs == w.cur.vertices
    IN  WriteVertices(w, [idx \in DOMAIN vs |->
            IF idx \in nose_vertices
            THEN <<vs[idx][1], vs[idx][2], vs[idx][3] + intensity * 100>>
            ELSE vs[idx]])

\* _edit_eye_size: scale each eye about its own centre by 1 + intensity * 0.2
_edit_eye_size(w, intensity) ==
    LET vs == w.cur.vertices
        left_eye == _get_region_vertices(w.cur, {"left_eye"})
        right_eye == _get_region_vertices(w.cur, {"right_eye"})
        eye_of(idx) == IF idx \in left_eye THEN left_eye ELSE right_eye
    IN  WriteVertices(w, [idx \in DOMAIN vs |->
            IF idx \in left_eye \cup right_eye
            THEN [k \in 1..3 |->
                    ScaleAbout(vs[idx][k], SumOver(vs, eye_of(idx), k),
                               Cardinality(eye_of(idx)), 100 + 2 * intensity, 100)]
            ELSE vs[idx]])

\* _edit_jaw_width: pull the jaw line toward the mean x of the whole mesh by
\* the factor 1 - intensity * 0.3
_edit_jaw_width(w, intensity) ==
    LET vs == w.cur.vertices
        jaw_vertices == _get_region_vertices(w.cur, {"jaw_line"})
        total == SumOver(vs, DOMAIN vs, 1)
    IN  WriteVertices(w, [idx \in DOMAIN vs |->
            IF idx \in jaw_vertices
            THEN <<ScaleAbout(vs[idx][1], total, NumVertices(w.cur),
                              100 - 3 * intensity, 100),
                   vs[idx][2], vs[idx][3]>>
            ELSE vs[idx]])

\* _edit_lip_thickness: y += intensity * 0.05 on mouth_outer
_edit_lip_thickness(w, intensity) ==
    LET mouth_vertices == _get_region_vertices(w.cur, {"mouth_outer"})
        vs == w.cur.vertices
    IN  WriteVertices(w, [idx \in DOMAIN vs |->
            IF idx \in mouth_vertices
            THEN <<vs[idx][1], vs[idx][2] + intensity * 50, vs[idx][3]>>
            ELSE vs[idx]])

\* _edit_cheek_contour: direction = center - vertex with center the vertex
\* itself but for x = 0, then direction[0] = 0: the direction is the zero
\* vector, its norm is not > 0, and no vertex is written
_edit_cheek_contour(w, intensity) == w

\* _edit_forehead_width: scale the forehead's x about its mean by
\* 1 + intensity * 0.15 (no vertex is visited when the region is empty)
_edit_forehead_width(w, intensity) ==
    LET vs == w.cur.vertices
        forehead_vertices == _get_region_vertices(w.cur, {"forehead"})
        total == SumOver(vs, forehead_vertices, 1)
    IN  WriteVertices(w, [idx \in DOMAIN vs |->
            IF idx \in forehead_vertices
            THEN <<ScaleAbout(vs[idx][1], total, Cardinality(forehead_vertices),
                              1000 + 15 * intensity, 1000),
                   vs[idx][2], vs[idx][3]>>
            ELSE vs[idx]])

\* the keys of MeshEditor.editing_operations, by the method each names
editing_operations ==
    { "_edit_nose_height", "_edit_eye_size", "_edit_jaw_width",
      "_edit_lip_thickness", "_edit_cheek_contour", "_edit_forehead_width" }

(***************************************************************************)
(* The requests the model makes of the engine.                             *)
(***************************************************************************)
MaxOps == 2

\* the vertex counts of the meshes: 468 is the landmark model's; the smaller
\* ones leave some or all indices of a region beyond the mesh
MeshSizes == {36, 200, 468}

BaseMesh(n) ==
    [ vertices |-> [i \in 0..(n - 1) |->
                      << (((i * 37) % 101) - 50) * 100,
                         (((i * 53) % 97) - 48) * 100,
                         ((i * 29) % 89) * 100 >>],
      faces    |-> << <<0, 1, 2>>, <<1, 2, 3>>, <<n - 3, n - 2, n - 1>> >> ]

EmptyMesh == [vertices |-> <<>>, faces |-> <<>>]

MeshOpChoices ==
    { OpDict("nasal_tip_mm", Num(1800), Absent),       \* clamped to 1.0
      OpDict("nasal_bridge_mm", Absent, Num(500)),     \* the docstring's "value" key
      OpDict("eye_size_ratio", Num(90), Absent),
      OpDict("jaw_width_mm", Num(-2800), Absent),      \* clamped to -2.0
      OpDict("lip_thickness_mm", Num(1000), Absent),
      OpDict("cheek_contour_mm", Num(-2100), Absent),  \* clamped to -1.5
      OpDict("forehead_width_mm", Num(4000), Absent),  \* clamped to 1.5
      OpDict("submental_fat_mm", Num(-1800), Absent),  \* no handler
      OpDict("submental_fat_mm", Num(5000), Absent),   \* no handler, no clamp entry
      OpDict("jaw_width_mm", NotNum, Absent),          \* delta_mm is not a number
      OpNotDict }

\* the number of _deform_region calls the operation reaches
NumRegionCalls(op) ==
    IF ~op.isdict \/ op.target \notin DOMAIN clamp_limits THEN 0
    ELSE IF (IF op.delta_mm.tag # "absent" THEN op.delta_mm ELSE op.value).tag = "other"
    THEN 0
    ELSE IF op.target \in {"eye_size_ratio", "cheek_contour_mm"} THEN 2
    ELSE 1

\* the targets for which the model lets a _deform_region call raise
FaultedTargets == {"nasal_tip_mm", "eye_size_ratio"}

\* an operation together with the _deform_region call that raises (0: none)
OpFaultChoices ==
    { pf \in MeshOpChoices \X (0..2) :
        /\ pf[2] <= NumRegionCalls(pf[1])
        /\ pf[2] > 0 => pf[1].target \in FaultedTargets }

EditMeshRequests ==
    { [ handler |-> "edit_mesh", num_vertices |-> n,
        ops_arg |-> OpList([i \in 1..Len(pf) |-> pf[i][1]]),
        faults |-> [i \in 1..Len(pf) |-> pf[i][2]], intensity |-> 0 ] :
        n \in MeshSizes,
        pf \in UNION { [1..k -> OpFaultChoices] : k \in 0..MaxOps } }
    \cup
    { [ handler |-> "edit_mesh", num_vertices |-> n, ops_arg |-> NotAList,
        faults |-> <<>>, intensity |-> 0 ] : n \in MeshSizes }

LegacyRequests ==
    { [ handler |-> h, num_vertices |-> n, ops_arg |-> NotAList,
        faults |-> <<>>, intensity |-> t ] :
        h \in editing_operations, n \in MeshSizes, t \in {0, 5, 10} }

MeshRequests == EditMeshRequests \cup LegacyRequests

(***************************************************************************)
(* app.py: the handlers that run the parser's operations through the       *)
(* engine, POST /process-face-mesh and POST /mesh/deform.                  *)
(***************************************************************************)
\* an operation dict of the parser as the engine reads it
AsEngineOp(op) == OpDict(op.target, Num(op.delta_mm), Absent)
EngineOps(ops) == [i \in 1..Len(ops) |-> AsEngineOp(ops[i])]

\* iterating a dict yields its keys, strings: none of them is a dict
IteratedDict(op) == OpList(<< OpNotDict, OpNotDict >>)

\* The outcome of a step of a handler: it raised, or it left this mesh.
Completed(m, is_arg) == [raised |-> FALSE, mesh |-> m, is_arg |-> is_arg]
Raised == [raised |-> TRUE, mesh |-> EmptyMesh, is_arg |-> FALSE]

\* A call processors["mesh_editor"].edit_mesh(m, op, *extra): edit_mesh takes
\* (self, mesh, operations), so a call with further positional arguments
\* raises TypeError before the body runs.
edit_mesh_call(m, op, extra) ==
    IF Len(extra) > 0 THEN Raised
    ELSE Completed(edit_mesh(m, IteratedDict(op), <<0, 0>>).cur, FALSE)

\* the third positional argument of lines 456 and 582 ({} / surgery_dict)
HandlerArguments == << "dict" >>

\* the loops of lines 454-456 and 580-582 from operation i on:
\* edited_mesh = await edit_mesh(edited_mesh, op, {}) for each op
RECURSIVE HandlerLoop(_, _, _)
HandlerLoopNext(r, ops, i) ==
    IF r.raised THEN r ELSE HandlerLoop(r, ops, i + 1)

HandlerLoop(r, ops, i) ==
    IF i > Len(ops) THEN r
    ELSE HandlerLoopNext(edit_mesh_call(r.mesh, ops[i], HandlerArguments), ops, i)

\* the prompts of POST /process-face-mesh
PipelinePrompts == { Str(Flatten(ts)) : ts \in ReorderSequences }

\* the mesh FaceMeshProcessor.build_mesh returns has the 468 landmarks
ProcessFaceMeshRequest ==
    [ handler |-> "process_face_mesh", num_vertices |-> 468, ops_arg |-> NotAList,
      faults |-> <<>>, intensity |-> 0 ]

\* the bodies of POST /mesh/deform: ops is a List[Dict]
DeformMeshRequests ==
    { [ handler |-> "deform_mesh", num_vertices |-> n, ops_arg |-> OpList(ops),
        faults |-> [i \in 1..Len(ops) |-> 0], intensity |-> 0 ] :
        n \in MeshSizes,
        ops \in UNION { [1..k -> MeshOpChoices \ {OpNotDict}] : k \in 0..MaxOps } }


(***************************************************************************)
(* app.py: the Similarity Alignment Solver.                                *)
(*                                                                         *)
(* An array is [rows |-> sequence of points, cols |-> width]; its shape is *)
(* (len(rows), cols).  The modelled inputs have integer coordinates, and   *)
(* the results are kept exact:                                             *)
(*   R      [m, n2]            the matrix m / sqrt(n2), m an integer 2x2   *)
(*   scale  [sq_num, sq_den]   the number sqrt(sq_num / sq_den) >= 0       *)
(*   t      [exact, num, den]  the vector num / den when exact            *)
(* With N points, NAc = N * (A - muA) and NBc = N * (B - muB) are integer, *)
(* SN = NAc^T NBc = N^3 * S and VN = sum(NAc^2) = N^3 * varA.              *)
(***************************************************************************)
Shape(X) == <<Len(X.rows), X.cols>>

RECURSIVE SumRows(_, _, _)
SumRows(rows, k, c) ==                      \* the sum of column c of rows[1..k]
    IF k = 0 THEN 0 ELSE SumRows(rows, k - 1, c) + rows[k][c]

\* N * (X - X.mean(axis=0))
Centered(X) ==
    LET N == Len(X.rows)
    IN  [k \in 1..N |-> [c \in 1..2 |-> N * X.rows[k][c] - SumRows(X.rows, N, c)]]

RECURSIVE DotCols(_, _, _, _, _)
DotCols(P, Q, k, i, j) ==                   \* sum over rows 1..k of P[.][i] * Q[.][j]
    IF k = 0 THEN 0 ELSE DotCols(P, Q, k - 1, i, j) + P[k][i] * Q[k][j]

\* line 327: S = Ac.T @ Bc / N   (times N^3)
CrossCovariance(A, B) ==
    LET Ac == Centered(A)
        Bc == Centered(B)
    IN  [i \in 1..2 |-> [j \in 1..2 |-> DotCols(Ac, Bc, Len(Ac), i, j)]]

\* line 333: varA = np.sum(Ac ** 2) / N   (times N^3)
VarianceA(A) ==
    LET Ac == Centered(A)
    IN  DotCols(Ac, Ac, Len(Ac), 1, 1) + DotCols(Ac, Ac, Len(Ac), 2, 2)

Det2(M) == M[1][1] * M[2][2] - M[1][2] * M[2][1]

\* the rotations a degenerate decomposition may yield (m / sqrt(n2))
Rot0 == [m |-> << <<1, 0>>, <<0, 1>> >>, n2 |-> 1]
Rot90 == [m |-> << <<0, -1>>, <<1, 0>> >>, n2 |-> 1]

\* The proper rotation nearest to S^T: the matrix V diag(1, d) U^T of the
\* decomposition S = U diag(svals) V^T, d = sign det(V U^T), which maximizes
\* trace(R^T S^T) over the proper rotations [[c, -s], [s, c]]:
\* (c, s) is the direction of (S11 + S22, S12 - S21).  Where that vector is
\* zero (S = 0, or S a multiple of a reflection) the decomposition is not
\* unique and the library's choice, amb, decides.
NearestRotation(SN, amb) ==
    LET a == SN[1][1] + SN[2][2]
        b == SN[1][2] - SN[2][1]
    IN  IF a = 0 /\ b = 0 THEN amb
        ELSE [m |-> << <<a, -b>>, <<b, a>> >>, n2 |-> a * a + b * b]

\* lines 328-329: U, svals, Vt = svd(S); R = Vt.T @ U.T, the orthogonal polar
\* factor of S^T.  For det S > 0 it is the nearest rotation; for det S < 0 it
\* is the nearest reflection [[c, s], [s, -c]], (c, s) the direction of
\* (S11 - S22, S12 + S21); for det S = 0 the library may return either, and
\* lines 330-332 lead both to the same rotation.
PolarFactor(SN, amb) ==
    LET c == SN[1][1] - SN[2][2]
        d == SN[1][2] + SN[2][1]
    IN  IF Det2(SN) < 0
        THEN [m |-> << <<c, d>>, <<d, -c>> >>, n2 |-> c * c + d * d]
        ELSE NearestRotation(SN, amb)

\* lines 330-332 with the correction left out
ReflectionCorrection_None(R0, SN, amb) == R0

\* lines 330-332: if det(R) < 0, negate the last row of Vt and recompute R
ReflectionCorrection(R0, SN, amb) ==
    IF Det2(R0.m) < 0 THEN NearestRotation(SN, amb) ELSE R0

\* np.sum(svals) squared (times N^6): (s1 + s2)^2 = |S|_F^2 + 2 |det S|
SumSvalsSquared(SN) ==
    SN[1][1] * SN[1][1] + SN[1][2] * SN[1][2] + SN[2][1] * SN[2][1]
        + SN[2][2] * SN[2][2] + 2 * Abs(Det2(SN))

\* line 334: scale = np.sum(svals) / max(1e-8, varA).  varA = VN / N^3 with VN
\* an integer, so varA > 1e-8 exactly when VN > 0 (N^3 < 10^8); for VN = 0
\* the points of A coincide, S = 0 and scale = 0 / 1e-8
Scale(SN, VN) ==
    IF VN > 0 THEN [sq_num |-> SumSvalsSquared(SN), sq_den |-> VN * VN]
    ELSE [sq_num |-> 0, sq_den |-> 1]

\* row vector times matrix
VecMat(v, M) == [j \in 1..2 |-> v[1] * M[1][j] + v[2] * M[2][j]]

\* line 335: t = muB - scale * (muA @ R).  scale * R = sqrt(sq_num / n2) * m / VN
\* is rational when sq_num = n2 (every det S >= 0 with S # 0), and 0 when
\* scale = 0; otherwise t is not a rational vector and is left unevaluated
Translation(A, B, R, sc, VN) ==
    LET N == Len(A.rows)
        sumA == [c \in 1..2 |-> SumRows(A.rows, N, c)]
        sumB == [c \in 1..2 |-> SumRows(B.rows, N, c)]
    IN  IF sc.sq_num = 0
        THEN [exact |-> TRUE, num |-> sumB, den |-> N]
        ELSE IF sc.sq_num = R.n2
        THEN [exact |-> TRUE,
              num |-> [c \in 1..2 |-> VN * sumB[c] - VecMat(sumA, R.m)[c]],
              den |-> N * VN]
        ELSE [exact |-> FALSE, num |-> <<0, 0>>, den |-> 1]

NoTransform == [ R |-> Rot0, scale |-> [sq_num |-> 0, sq_den |-> 1],
                 t |-> [exact |-> FALSE, num |-> <<0, 0>>, den |-> 1] ]

\* lines 323-336, for arrays that passed the check of line 321
SolveSimilarity(A, B, amb) ==
    LET SN == CrossCovariance(A, B)
        VN == VarianceA(A)
        R  == ReflectionCorrection(PolarFactor(SN, amb), SN, amb)
        sc == Scale(SN, VN)
    IN  [ raised |-> "", R |-> R, scale |-> sc, t |-> Translation(A, B, R, sc, VN) ]

\* the outcome "raise": which error, and no transform returned
Raise(what) == [raised |-> what] @@ NoTransform

\* _estimate_similarity with the test of the point count left out: one
\* point pair yields a transform, no pair fails in the decomposition
_estimate_similarity_NoCountCheck(A, B, amb) ==
    IF Shape(A) # Shape(B) THEN Raise("ValueError at line 322")
    ELSE IF Len(A.rows) = 0 THEN Raise("LinAlgError at line 328")
    ELSE SolveSimilarity(A, B, amb)

\* _estimate_similarity(A, B): line 321 raises ValueError before anything is
\* computed when the shapes differ or there are fewer than 2 points
_estimate_similarity(A, B, amb) ==
    IF Shape(A) # Shape(B) \/ Len(A.rows) < 2 THEN Raise("ValueError at line 322")
    ELSE SolveSimilarity(A, B, amb)

(***************************************************************************)
(* The requests the model makes of the solver: a point set A of at most    *)
(* MaxPoints points and a B derived from it.                               *)
(***************************************************************************)
MaxPoints == 3
Coords == {0, 1}

PointSets == UNION { [1..n -> Coords \X Coords] : n \in 0..MaxPoints }

\* Proper rotations with rational entries: [[p, -q], [q, p]] / h, h^2 = p^2 + q^2
Rotations ==
    { [p |-> 1, q |-> 0, h |-> 1],     \* 0 degrees
      [p |-> 0, q |-> 1, h |-> 1],     \* 90 degrees
      [p |-> -1, q |-> 0, h |-> 1],    \* 180 degrees
      [p |-> 0, q |-> -1, h |-> 1],    \* 270 degrees
      [p |-> 3, q |-> 4, h |-> 5],     \* atan(4/3)
      [p |-> 4, q |-> -3, h |-> 5] }   \* -atan(3/4)

RotMatrix(rot) == << <<rot.p, -rot.q>>, <<rot.q, rot.p>> >>

\* B = s * (A @ R) + t with R = RotMatrix(rot) / rot.h and s = g * rot.h
Similar(rows, rot, g, t) ==
    [k \in 1..Len(rows) |->
        [c \in 1..2 |-> g * VecMat(rows[k], RotMatrix(rot))[c] + t[c]]]

Mirror(rows) == [k \in 1..Len(rows) |-> <<rows[k][1], -rows[k][2]>>]

NoKnown == [rot |-> [p |-> 1, q |-> 0, h |-> 1], g |-> 0, t |-> <<0, 0>>]

SimRequests ==
    \* B = s (A R) + t for a known R, s, t
    { [ kind |-> "similar", A |-> [rows |-> a, cols |-> 2],
        B |-> [rows |-> Similar(a, rot, g, t), cols |-> 2],
        known |-> [rot |-> rot, g |-> g, t |-> t], amb |-> amb ] :
        a \in PointSets, rot \in Rotations, g \in {1, 2}, t \in {<<0, 0>>, <<1, -2>>},
        amb \in {Rot0, Rot90} }
    \cup
    \* B a mirror image of A, rotated
    { [ kind |-> "mirrored", A |-> [rows |-> a, cols |-> 2],
        B |-> [rows |-> Similar(Mirror(a), rot, 1, <<0, 0>>), cols |-> 2],
        known |-> NoKnown, amb |-> amb ] :
        a \in PointSets, rot \in Rotations, amb \in {Rot0, Rot90} }
    \cup
    \* every point of B the same
    { [ kind |-> "coincident", A |-> [rows |-> a, cols |-> 2],
        B |-> [rows |-> [k \in 1..Len(a) |-> <<1, 1>>], cols |-> 2],
        known |-> NoKnown, amb |-> amb ] :
        a \in PointSets, amb \in {Rot0, Rot90} }
    \cup
    \* B one point short, or B with a third column
    { [ kind |-> "mismatch", A |-> [rows |-> a, cols |-> 2],
        B |-> IF short THEN [rows |-> SubSeq(a, 1, Len(a) - 1), cols |-> 2]
              ELSE [rows |-> [k \in 1..Len(a) |-> <<a[k][1], a[k][2], 0>>], cols |-> 3],
        known |-> NoKnown, amb |-> Rot0 ] :
        a \in PointSets \ {<<>>}, short \in BOOLEAN }

NoSimRequest ==
    [ kind |-> "none", A |-> [rows |-> <<>>, cols |-> 2], B |-> [rows |-> <<>>, cols |-> 2],
      known |-> NoKnown, amb |-> Rot0 ]

(***************************************************************************)
(* app.py: the consent-gated endpoints /analyze, /visualize-mesh,          *)
(* /mesh/deform (the form handler of line 243) and /mesh/overlay.          *)
(*                                                                         *)
(* A request is [handler, consent, face_detected, swap, ...]; the image    *)
(* collaborators (PIL, MediaPipe, the visualizer) are outside the model:   *)
(* face_detected says whether build_mesh / face_mesh.process found a face, *)
(* and the mesh build_mesh returns is the 468-landmark mesh.  A response   *)
(* is [status, raised_by, image_read]: the HTTP status the client gets,    *)
(* the detail of the exception that ended the handler, and whether the     *)
(* handler reached `await image.read()`.                                   *)
(***************************************************************************)
\* raise HTTPException(status_code=..., detail=...) before or after the read
HTTPException(status_code, detail, image_read) ==
    [status |-> status_code, raised_by |-> detail, image_read |-> image_read]

\* return JSONResponse({...})
JSONResponse == [status |-> 200, raised_by |-> "", image_read |-> TRUE]

\* Each handler's body is one try block closed by
\*     except Exception as e: raise HTTPException(status_code=500, ...)
\* (lines 147-149, 194-196, 298-300, 414-416).  HTTPException is a subclass
\* of Exception, so an HTTPException raised inside the block is caught as
\* well and replaced by the 500.
ExceptException(e) == HTTPException(500, e.raised_by, e.image_read)

\* the first statements of the four handlers: `if not consent: raise 400`,
\* the read of the upload, build_mesh (or the landmark detection of
\* overlay_mesh) and `if not face_mesh: raise 400`; "" when they all pass
ConsentAndFace(req, no_face_detail) ==
    IF ~req.consent THEN HTTPException(400, "Consent is required", FALSE)
    ELSE IF ~req.face_detected THEN HTTPException(400, no_face_detail, TRUE)
    ELSE JSONResponse

\* a response of the visualizer step: it returns, or it raises
Visualized(later_raised) ==
    IF later_raised THEN ExceptException(HTTPException(500, "visualize_mesh", TRUE))
    ELSE JSONResponse

\* analyze_face (lines 105-149)
analyze_face(req) ==
    LET e == ConsentAndFace(req, "Failed to detect face or build mesh")
    IN  IF e.status # 200 THEN ExceptException(e) ELSE JSONResponse

\* visualize_mesh (lines 158-196)
visualize_mesh(req, later_raised) ==
    LET e == ConsentAndFace(req, "Failed to detect face or build mesh")
    IN  IF e.status # 200 THEN ExceptException(e) ELSE Visualized(later_raised)

\* the form handler deform_mesh (lines 250-300), the prompt parsed to r:
\* [response, edited], edited the frame edit_mesh returned (None: not reached)
deform_mesh_form(req, m, r, later_raised) ==
    LET e == ConsentAndFace(req, "Failed to detect face or build mesh")
        none == Frame(EmptyMesh, FALSE, m)
    IN  IF e.status # 200 THEN [response |-> ExceptException(e), edited |-> none]
        ELSE IF r.error
        THEN [response |-> ExceptException(HTTPException(500, "parse_instruction", TRUE)),
              edited |-> none]
        ELSE IF r.ops = <<>>
        THEN [response |-> ExceptException(
                 HTTPException(400, "No valid operations found in prompt", TRUE)),
              edited |-> none]
        ELSE [response |-> Visualized(later_raised),
              edited |-> edit_mesh(m, OpList(EngineOps(r.ops)),
                                   [i \in 1..Len(r.ops) |-> 0])]

\* _get_keypoints_px (lines 303-317) returns three points: the centre of
\* the left eye, of the right eye, and the nose tip
KeyPoints == 3

\* lines 376-381 and 393-398:
\*     verts = mesh.vertices.copy(); XY = verts[:, :2]
\*     verts[:, :2] = s * (XY @ R) + t
\* For keypoints related by a similarity, s * R = tr.R.m / VN and
\* t = tr.t.num / tr.t.den with tr.t.den = N * VN (N when s = 0): the X and Y
\* of the result are kept as numerators over tr.t.den, Z is copied.
AlignedVertices(vs, A, tr) ==
    [idx \in DOMAIN vs |->
        IF tr.scale.sq_num = 0
        THEN << tr.t.num[1], tr.t.num[2], vs[idx][3] >>
        ELSE << Len(A.rows) * VecMat(<<vs[idx][1], vs[idx][2]>>, tr.R.m)[1] + tr.t.num[1],
                Len(A.rows) * VecMat(<<vs[idx][1], vs[idx][2]>>, tr.R.m)[2] + tr.t.num[2],
                vs[idx][3] >>]

\* An alignment that writes through mesh.vertices (no .copy()).
AlignMesh_NoCopy(m, A, tr) ==
    [ aligned |-> [vertices |-> AlignedVertices(m.vertices, A, tr), faces |-> m.faces,
                   xy_den |-> tr.t.den],
      source  |-> [m EXCEPT !.vertices = AlignedVertices(m.vertices, A, tr)] ]

\* lines 376-382 / 393-399: aligned_mesh = Trimesh(vertices=verts,
\* faces=mesh.faces) from the transformed copy; source is the mesh object
\* build_mesh returned, after the statements
AlignMesh(m, A, tr) ==
    [ aligned |-> [vertices |-> AlignedVertices(m.vertices, A, tr), faces |-> m.faces,
                   xy_den |-> tr.t.den],
      source  |-> m ]

\* overlay_mesh (lines 347-416) with the keypoints of the two images: the
\* mesh of the source image is aligned to the target (swap = False) or the
\* mesh of the target image to the source (swap = True)
overlay_mesh(req, m, src_kp, tgt_kp, amb, later_raised) ==
    LET e  == ConsentAndFace(req, "Failed to detect face on one of images")
        A  == IF req.swap THEN tgt_kp ELSE src_kp
        B  == IF req.swap THEN src_kp ELSE tgt_kp
        tr == _estimate_similarity(A, B, amb)
        none == [aligned |-> EmptyMesh, source |-> m]
    IN  IF e.status # 200
        THEN [response |-> ExceptException(e), tr |-> Raise(""), meshes |-> none]
        ELSE IF tr.raised # ""
        THEN [response |-> ExceptException(HTTPException(500, tr.raised, TRUE)),
              tr |-> tr, meshes |-> none]
        ELSE [response |-> Visualized(later_raised), tr |-> tr,
              meshes |-> AlignMesh(m, A, tr)]

\* the requests of the four endpoints
EndpointRequest(handler, consent, face_detected, swap) ==
    [ handler |-> handler, num_vertices |-> 468, ops_arg |-> NotAList, faults |-> <<>>,
      intensity |-> 0, consent |-> consent, face_detected |-> face_detected,
      swap |-> swap ]

\* the prompts of the form handler: nothing, or one fragment
EndpointPrompts ==
    { Str(<<>>) } \cup { Str(f) : f \in ReorderVocabulary }

\* the keypoints of the two images of /mesh/overlay: those of the source
\* have the left eye at the origin, those of the target are a similarity
\* image of those of the source
OverlayKeypoints ==
    { [ kind |-> "overlay", A |-> [rows |-> a, cols |-> 2],
        B |-> [rows |-> Similar(a, rot, g, <<1, -2>>), cols |-> 2],
        known |-> [rot |-> rot, g |-> g, t |-> <<1, -2>>], amb |-> amb ] :
        a \in { p \in [1..KeyPoints -> Coords \X Coords] : p[1] = <<0, 0>> },
        rot \in Rotations, g \in {1, 2}, amb \in {Rot0, Rot90} }

(***************************************************************************)
(* app.py: the shared processor instances (lines 45-69).                   *)
(*                                                                         *)
(* get_processors is a plain def used as a dependency of every handler, so *)
(* the framework runs it in a worker thread per request, and two requests  *)
(* can be inside it at once.  Its four globals start as None and are       *)
(* filled by `if g is None: g = Class()`: the test and the store are       *)
(* separate steps of a thread.  An instance is named by its number of      *)
(* creation (0: None); the Region Map is the face_regions attribute of the *)
(* MeshEditor instance, the Target Registry the module global config of    *)
(* config.py, created at import.                                           *)
(***************************************************************************)
\* the globals of lines 46-49, in the order get_processors tests them
Globals == << "face_processor", "mesh_editor", "nano_processor", "instruction_parser" >>

\* the number of requests in flight at once
MaxInvocations == 2
Invocations == 1..MaxInvocations

\* the globals at import: every processor None; config = Config() loaded once
ProcessorsAtImport ==
    [ instance |-> [k \in 1..Len(Globals) |-> 0],
      created  |-> [k \in 1..Len(Globals) |-> 0],
      config   |-> [instance |-> 1, loads |-> 1] ]

\* a position of a thread in get_processors and the handler
At(at, k) == [at |-> at, k |-> k]

\* a request that has not yet entered get_processors
NewInvocation ==
    [ pc |-> At("test", 1), got |-> [k \in 1..Len(Globals) |-> 0], registry |-> 0 ]

\* the position after the if statement of global k: the next if, or the
\* return statement
AfterGlobal(k) == IF k < Len(Globals) THEN At("test", k + 1) ELSE At("return", 0)

\* `if g is None:` (lines 55, 57, 59, 61): the thread reads the global
TestGlobal(inv, p) ==
    [inv EXCEPT !.pc = IF p.instance[inv.pc.k] = 0 THEN At("store", inv.pc.k)
                       ELSE AfterGlobal(inv.pc.k)]

\* `g = Class()` (lines 56, 58, 60, 62): a new instance is built and stored
StoreGlobal(inv, p) ==
    [p EXCEPT !.created[inv.pc.k] = @ + 1,
              !.instance[inv.pc.k] = p.created[inv.pc.k] + 1]

\* lines 64-69: the dict is built from the globals as they are now
ReturnedProcessors(inv, p) ==
    [inv EXCEPT !.pc = At("handler", 0), !.got = p.instance]

\* the handler body: it uses the processors it was given and the module
\* global config, and assigns to none of them
Handled(inv, p) ==
    [inv EXCEPT !.pc = At("done", 0), !.registry = p.config.instance]

(***************************************************************************)
(* The state machine.                                                      *)
(***************************************************************************)
vars == <<last_call, instruction, operations, parse_error, reordered,
          mesh_request, mesh, edited_mesh, response, sim_request, sim_result,
          processors, invocations>>

parser_vars == <<instruction, operations, parse_error, reordered>>
mesh_vars == <<mesh_request, mesh, edited_mesh, response>>
sim_vars == <<sim_request, sim_result>>
server_vars == <<processors, invocations>>

\* no request is in flight and the processors are not looked at
ServerIdle ==
    /\ processors = ProcessorsAtImport
    /\ invocations = <<>>

\* the mesh of the request, as it was when the caller passed it
OriginalMesh == BaseMesh(mesh_request.num_vertices)

NoMeshRequest ==
    [handler |-> "none", num_vertices |-> 0, ops_arg |-> NotAList, faults |-> <<>>,
     intensity |-> 0]

\* no second call is made
NoSecondCall ==
    [requested |-> FALSE, instruction |-> Str(<<>>), parsed |-> FALSE,
     operations |-> <<>>, parse_error |-> FALSE]

\* a second call is going to be made, with this argument
SecondCall(instr) ==
    [requested |-> TRUE, instruction |-> instr, parsed |-> FALSE,
     operations |-> <<>>, parse_error |-> FALSE]

ParserIdle ==
    /\ instruction = Str(<<>>)
    /\ operations = <<>>
    /\ parse_error = FALSE
    /\ reordered = NoSecondCall

\* no HTTP handler has responded
NoResponse == [status |-> 0, raised_by |-> ""]

MeshIdle ==
    /\ mesh_request = NoMeshRequest
    /\ mesh = EmptyMesh
    /\ edited_mesh = [mesh |-> EmptyMesh, is_arg |-> FALSE]
    /\ response = NoResponse

SimIdle ==
    /\ sim_request = NoSimRequest
    /\ sim_result = Raise("")

\* MaxInvocations requests arrive after start-up
InitServer ==
    /\ last_call = "none"
    /\ ParserIdle
    /\ MeshIdle
    /\ SimIdle
    /\ processors = ProcessorsAtImport
    /\ invocations = [i \in Invocations |-> NewInvocation]

\* One request to a consent-gated endpoint per behaviour.  mesh is the mesh
\* build_mesh returns for the image (none when no face is found).
InitEndpoints ==
    /\ last_call = "none"
    /\ ServerIdle
    /\ \E consent, face_detected, swap \in BOOLEAN :
          /\ \/ /\ mesh_request = EndpointRequest("analyze_face", consent, face_detected, FALSE)
                /\ ~swap
                /\ instruction = Str(<<>>)
                /\ sim_request = NoSimRequest
             \/ /\ mesh_request = EndpointRequest("visualize_mesh", consent, face_detected, FALSE)
                /\ ~swap
                /\ instruction = Str(<<>>)
                /\ sim_request = NoSimRequest
             \/ /\ mesh_request = EndpointRequest("deform_mesh_form", consent, face_detected, FALSE)
                /\ ~swap
                /\ instruction \in EndpointPrompts
                /\ sim_request = NoSimRequest
             \/ /\ mesh_request = EndpointRequest("overlay_mesh", consent, face_detected, swap)
                /\ instruction = Str(<<>>)
                /\ sim_request \in OverlayKeypoints
          /\ mesh = IF face_detected THEN BaseMesh(468) ELSE EmptyMesh
    /\ operations = <<>>
    /\ parse_error = FALSE
    /\ reordered = NoSecondCall
    /\ edited_mesh = [mesh |-> EmptyMesh, is_arg |-> FALSE]
    /\ response = NoResponse
    /\ sim_result = Raise("")

\* One request per behaviour: the initial state holds the arguments of the
\* request (nothing has run yet), the handler's action computes its result.
InitParser ==
    /\ last_call = "none"
    /\ ServerIdle
    /\ instruction \in Instructions
    /\ operations = <<>>
    /\ parse_error = FALSE
    /\ reordered = NoSecondCall
    /\ MeshIdle
    /\ SimIdle

\* One call of parse_instruction on a text of keywords and numbers.
InitOverride ==
    /\ last_call = "none"
    /\ ServerIdle
    /\ instruction \in OverrideInstructions
    /\ operations = <<>>
    /\ parse_error = FALSE
    /\ reordered = NoSecondCall
    /\ MeshIdle
    /\ SimIdle

\* The parser keeps no state between calls: a caller parses a text and then
\* the same fragments in the opposite order.
InitReorder ==
    /\ last_call = "none"
    /\ ServerIdle
    /\ \E ts \in ReorderSequences :
          /\ instruction = Str(Flatten(ts))
          /\ reordered = SecondCall(Str(Flatten(Reverse(ts))))
    /\ operations = <<>>
    /\ parse_error = FALSE
    /\ MeshIdle
    /\ SimIdle

InitMesh ==
    /\ last_call = "none"
    /\ ServerIdle
    /\ ParserIdle
    /\ mesh_request \in MeshRequests
    /\ mesh = OriginalMesh
    /\ edited_mesh = [mesh |-> EmptyMesh, is_arg |-> FALSE]
    /\ response = NoResponse
    /\ SimIdle

\* One HTTP request per behaviour: POST /process-face-mesh with a prompt (the
\* face mesh built from the image has 468 landmarks), or POST /mesh/deform
\* with the landmarks and an operation list.
InitPipeline ==
    /\ last_call = "none"
    /\ ServerIdle
    /\ \/ /\ instruction \in PipelinePrompts
          /\ mesh_request = ProcessFaceMeshRequest
       \/ /\ instruction = Str(<<>>)
          /\ mesh_request \in DeformMeshRequests
    /\ operations = <<>>
    /\ parse_error = FALSE
    /\ reordered = NoSecondCall
    /\ mesh = OriginalMesh
    /\ edited_mesh = [mesh |-> EmptyMesh, is_arg |-> FALSE]
    /\ response = NoResponse
    /\ SimIdle

InitSim ==
    /\ last_call = "none"
    /\ ServerIdle
    /\ ParserIdle
    /\ MeshIdle
    /\ sim_request \in SimRequests
    /\ sim_result = Raise("")

\* the caller receives the list parse_instruction returns, or its exception
ReturnedOperations(r) ==
    /\ operations' = r.ops
    /\ parse_error' = r.error

\* a caller invokes InstructionParser.parse_instruction(instruction)
ParseInstruction ==
    /\ last_call = "none"
    /\ last_call' = "parse_instruction"
    /\ ReturnedOperations(parse_instruction(instruction))
    /\ UNCHANGED <<instruction, reordered, mesh_vars, sim_vars, server_vars>>

\* the caller receives the result of its second call
ReturnedReordered(r) ==
    reordered' = [reordered EXCEPT !.parsed = TRUE, !.operations = r.ops,
                                   !.parse_error = r.error]

\* the caller invokes parse_instruction again, on the reordered text
ParseReordered ==
    /\ last_call = "parse_instruction"
    /\ reordered.requested
    /\ ~reordered.parsed
    /\ ReturnedReordered(parse_instruction(reordered.instruction))
    /\ UNCHANGED <<last_call, instruction, operations, parse_error, mesh_vars, sim_vars, server_vars>>

\* the result of an engine call that returned frame w
Returned(w) ==
    /\ mesh' = w.arg
    /\ edited_mesh' = [mesh |-> w.cur, is_arg |-> w.alias]
    /\ UNCHANGED <<parser_vars, mesh_request, response, sim_vars, server_vars>>

\* a caller invokes MeshEditor.edit_mesh(mesh, operations)
EditMesh ==
    /\ last_call = "none"
    /\ mesh_request.handler = "edit_mesh"
    /\ last_call' = "edit_mesh"
    /\ Returned(edit_mesh(mesh, mesh_request.ops_arg, mesh_request.faults))

\* a caller invokes one of the handlers of editing_operations on its mesh
EditNoseHeight ==
    /\ last_call = "none"
    /\ mesh_request.handler = "_edit_nose_height"
    /\ last_call' = "_edit_nose_height"
    /\ Returned(_edit_nose_height(Frame(mesh, TRUE, mesh), mesh_request.intensity))

EditEyeSize ==
    /\ last_call = "none"
    /\ mesh_request.handler = "_edit_eye_size"
    /\ last_call' = "_edit_eye_size"
    /\ Returned(_edit_eye_size(Frame(mesh, TRUE, mesh), mesh_request.intensity))

EditJawWidth ==
    /\ last_call = "none"
    /\ mesh_request.handler = "_edit_jaw_width"
    /\ last_call' = "_edit_jaw_width"
    /\ Returned(_edit_jaw_width(Frame(mesh, TRUE, mesh), mesh_request.intensity))

EditLipThickness ==
    /\ last_call = "none"
    /\ mesh_request.handler = "_edit_lip_thickness"
    /\ last_call' = "_edit_lip_thickness"
    /\ Returned(_edit_lip_thickness(Frame(mesh, TRUE, mesh), mesh_request.intensity))

EditCheekContour ==
    /\ last_call = "none"
    /\ mesh_request.handler = "_edit_cheek_contour"
    /\ last_call' = "_edit_cheek_contour"
    /\ Returned(_edit_cheek_contour(Frame(mesh, TRUE, mesh), mesh_request.intensity))

EditForeheadWidth ==
    /\ last_call = "none"
    /\ mesh_request.handler = "_edit_forehead_width"
    /\ last_call' = "_edit_forehead_width"
    /\ Returned(_edit_forehead_width(Frame(mesh, TRUE, mesh), mesh_request.intensity))

\* the handler's response after its edit loop ended with r: an exception is
\* turned into a 500 by the handler's except clause
Responded(r, later_raised) ==
    /\ edited_mesh' = [mesh |-> r.mesh, is_arg |-> r.is_arg]
    /\ response' = IF r.raised THEN [status |-> 500, raised_by |-> "edit_mesh call"]
                   ELSE IF later_raised
                   THEN [status |-> 500, raised_by |-> "generate_image"]
                   ELSE [status |-> 200, raised_by |-> ""]

\* steps 2 to 4 of process_face_mesh, the prompt parsed to r
ProcessFaceMeshParsed(r, later_raised) ==
    /\ ReturnedOperations(r)
    /\ Responded(HandlerLoop(Completed(mesh, TRUE), EngineOps(r.ops), 1), later_raised)

\* POST /process-face-mesh: parse the prompt, run each operation through the
\* engine, generate the image (which returns or raises)
ProcessFaceMesh ==
    /\ last_call = "none"
    /\ mesh_request.handler = "process_face_mesh"
    /\ last_call' = "process_face_mesh"
    /\ \E later_raised \in BOOLEAN :
          ProcessFaceMeshParsed(parse_instruction(instruction), later_raised)
    /\ UNCHANGED <<instruction, reordered, mesh_request, mesh, sim_vars, server_vars>>

\* POST /mesh/deform: run each operation of the body through the engine
DeformMesh ==
    /\ last_call = "none"
    /\ mesh_request.handler = "deform_mesh"
    /\ last_call' = "deform_mesh"
    /\ Responded(HandlerLoop(Completed(mesh, TRUE), mesh_request.ops_arg.ops, 1), FALSE)
    /\ UNCHANGED <<parser_vars, mesh_request, mesh, sim_vars, server_vars>>

\* a caller invokes _estimate_similarity(A, B)
EstimateSimilarity ==
    /\ last_call = "none"
    /\ sim_request.kind # "none"
    /\ last_call' = "_estimate_similarity"
    /\ sim_result' = _estimate_similarity(sim_request.A, sim_request.B, sim_request.amb)
    /\ UNCHANGED <<parser_vars, mesh_vars, sim_request, server_vars>>

\* POST /analyze
AnalyzeFace ==
    /\ last_call = "none"
    /\ mesh_request.handler = "analyze_face"
    /\ last_call' = "analyze_face"
    /\ response' = analyze_face(mesh_request)
    /\ UNCHANGED <<parser_vars, mesh_request, mesh, edited_mesh, sim_vars, server_vars>>

\* POST /visualize-mesh: the visualizer returns or raises
VisualizeMesh ==
    /\ last_call = "none"
    /\ mesh_request.handler = "visualize_mesh"
    /\ last_call' = "visualize_mesh"
    /\ \E later_raised \in BOOLEAN :
          response' = visualize_mesh(mesh_request, later_raised)
    /\ UNCHANGED <<parser_vars, mesh_request, mesh, edited_mesh, sim_vars, server_vars>>

\* the form handler answered out; the prompt was parsed to r if the handler
\* got as far as line 267
DeformMeshFormResponded(out, r) ==
    /\ response' = out.response
    /\ mesh' = out.edited.arg
    /\ edited_mesh' = [mesh |-> out.edited.cur, is_arg |-> out.edited.alias]
    /\ IF mesh_request.consent /\ mesh_request.face_detected
       THEN ReturnedOperations(r)
       ELSE UNCHANGED <<operations, parse_error>>

\* POST /mesh/deform with an image and a prompt
DeformMeshForm ==
    /\ last_call = "none"
    /\ mesh_request.handler = "deform_mesh_form"
    /\ last_call' = "deform_mesh"
    /\ \E later_raised \in BOOLEAN :
          DeformMeshFormResponded(
              deform_mesh_form(mesh_request, mesh, parse_instruction(instruction),
                               later_raised),
              parse_instruction(instruction))
    /\ UNCHANGED <<instruction, reordered, mesh_request, sim_vars, server_vars>>

\* the overlay handler answered out
OverlayMeshResponded(out) ==
    /\ response' = out.response
    /\ sim_result' = out.tr
    /\ mesh' = out.meshes.source
    /\ edited_mesh' = [mesh |-> out.meshes.aligned, is_arg |-> FALSE]

\* POST /mesh/overlay
OverlayMesh ==
    /\ last_call = "none"
    /\ mesh_request.handler = "overlay_mesh"
    /\ last_call' = "overlay_mesh"
    /\ \E later_raised \in BOOLEAN :
          OverlayMeshResponded(
              overlay_mesh(mesh_request, mesh, sim_request.A, sim_request.B,
                           sim_request.amb, later_raised))
    /\ UNCHANGED <<parser_vars, mesh_request, sim_request, server_vars>>

EndpointsNext ==
    \/ AnalyzeFace
    \/ VisualizeMesh
    \/ DeformMeshForm
    \/ OverlayMesh

SpecEndpoints == InitEndpoints /\ [][EndpointsNext]_vars

\* a thread of get_processors tests a global
GetProcessorsTest(i) ==
    /\ invocations[i].pc.at = "test"
    /\ invocations' = [invocations EXCEPT ![i] = TestGlobal(invocations[i], processors)]
    /\ UNCHANGED <<last_call, parser_vars, mesh_vars, sim_vars, processors>>

\* a thread of get_processors that found None builds and stores an instance
GetProcessorsStore(i) ==
    /\ invocations[i].pc.at = "store"
    /\ processors' = StoreGlobal(invocations[i], processors)
    /\ invocations' = [invocations EXCEPT ![i].pc = AfterGlobal(invocations[i].pc.k)]
    /\ UNCHANGED <<last_call, parser_vars, mesh_vars, sim_vars>>

\* get_processors returns the dict of the four globals
GetProcessorsReturn(i) ==
    /\ invocations[i].pc.at = "return"
    /\ invocations' = [invocations EXCEPT
                          ![i] = ReturnedProcessors(invocations[i], processors)]
    /\ UNCHANGED <<last_call, parser_vars, mesh_vars, sim_vars, processors>>

\* the handler of the request runs with the processors it was given
HandleRequest(i) ==
    /\ invocations[i].pc.at = "handler"
    /\ invocations' = [invocations EXCEPT ![i] = Handled(invocations[i], processors)]
    /\ UNCHANGED <<last_call, parser_vars, mesh_vars, sim_vars, processors>>

ServerNext ==
    \E i \in Invocations :
        \/ GetProcessorsTest(i)
        \/ GetProcessorsStore(i)
        \/ GetProcessorsReturn(i)
        \/ HandleRequest(i)

SpecServer == InitServer /\ [][ServerNext]_vars

ParserNext == ParseInstruction

ReorderNext ==
    \/ ParseInstruction
    \/ ParseReordered

MeshNext ==
    \/ EditMesh
    \/ EditNoseHeight
    \/ EditEyeSize
    \/ EditJawWidth
    \/ EditLipThickness
    \/ EditCheekContour
    \/ EditForeheadWidth

SpecParser == InitParser /\ [][ParserNext]_vars

SpecOverride == InitOverride /\ [][ParserNext]_vars

SpecReorder == InitReorder /\ [][ReorderNext]_vars

SimNext == EstimateSimilarity

SpecMesh == InitMesh /\ [][MeshNext]_vars

PipelineNext ==
    \/ ProcessFaceMesh
    \/ DeformMesh

SpecPipeline == InitPipeline /\ [][PipelineNext]_vars

SpecSim == InitSim /\ [][SimNext]_vars

(***************************************************************************)
(* Properties of the instruction parser (SpecParser).                      *)
(***************************************************************************)
Parsed == last_call = "parse_instruction"

\* the text as the keyword scan sees it
NormalizedText == _normalize_instruction(instruction).value

\* the keyword-table entries the text matches
MatchedEntries ==
    { k \in 1..Len(keyword_mapping) : Contains(keyword_mapping[k].keyword, NormalizedText) }

\* the operations before validation: keyword defaults, numeric override applied
Candidates ==
    _extract_numerical_values(instruction.chars, _extract_operations(NormalizedText))

InRange(op) ==
    get_min_delta(op.target) <= op.delta_mm /\ op.delta_mm <= get_max_delta(op.target)

TargetAndDelta(ops) == [i \in 1..Len(ops) |-> <<ops[i].target, ops[i].delta_mm>>]

\* C1: every operation parse_instruction returns has its delta within
\* [min_delta(target), max_delta(target)], bounds included; the result is
\* the candidate operations that are in range, their deltas unchanged: an
\* out-of-range candidate is removed, not clamped.
C1_ReturnedDeltasInRange ==
    Parsed =>
        /\ \A i \in 1..Len(operations) : InRange(operations[i])
        /\ instruction.kind = "str" =>
              TargetAndDelta(operations) = TargetAndDelta(SelectSeq(Candidates, InRange))

\* a parse that dropped an out-of-range candidate and returned another one
C1_Witness ==
    /\ Parsed
    /\ instruction.kind = "str"
    /\ \E i \in 1..Len(Candidates) : ~InRange(Candidates[i])
    /\ Len(operations) > 0
    /\ Len(operations) < Len(Candidates)

\* C2: parse_instruction propagates no error; for the empty text, for a text
\* that contains no keyword of the table, and for an input that is not a
\* string (an internal step raises), it returns the empty list.
C2_NeverRaisesEmptyOnNoMatch ==
    /\ parse_error = FALSE
    /\ Parsed =>
          ( ( \/ instruction.kind # "str"
              \/ instruction.chars = <<>>
              \/ \A k \in 1..Len(keyword_mapping) :
                    ~Contains(keyword_mapping[k].keyword, instruction.chars) )
            => operations = <<>> )

\* the parse of an argument that is not a string
C2_Witness ==
    /\ Parsed
    /\ instruction = NonStr
    /\ operations = <<>>

\* the numeric values of the text, in the order the parser collects them
NumericValues == all_numerical_values(instruction.chars)

\* C9 as stated: for a text with one target keyword, a decrease action
\* keyword and an explicit intensity N as its only number, the parse returns
\* exactly one operation, with action decrease and delta -(N/10) * max_delta.
C9_DecreaseIntensityIsNegative ==
    ( /\ Parsed
      /\ instruction.kind = "str"
      /\ Cardinality(MatchedEntries) = 1
      /\ ActionFound(NormalizedText) = "decrease"
      /\ Len(NumericValues) = 1
      /\ NumericValues[1].type = "intensity"
      /\ NumericValues[1].value <= 10 * DeltaScale )
    => /\ Len(operations) = 1
       /\ operations[1].action_type = "decrease"
       /\ operations[1].delta_mm =
             -ScaleBy(NumericValues[1].value, get_max_delta(operations[1].target),
                      10 * DeltaScale)

\* C10: for a text that matches exactly one keyword-table entry and holds
\* one millimetre value v within the target's range, the parse returns
\* exactly one operation, for that target, with delta v.
C10_MillimetreOverride ==
    ( /\ Parsed
      /\ instruction.kind = "str"
      /\ Cardinality(MatchedEntries) = 1
      /\ Len(MmFindall(instruction.chars, 1)) = 1
      /\ LET k == CHOOSE j \in MatchedEntries : TRUE
             v == MmFindall(instruction.chars, 1)[1]
         IN  get_min_delta(keyword_mapping[k].target) <= v
                /\ v <= get_max_delta(keyword_mapping[k].target) )
    => /\ Len(operations) = 1
       /\ operations[1].target =
             keyword_mapping[CHOOSE j \in MatchedEntries : TRUE].target
       /\ operations[1].delta_mm = MmFindall(instruction.chars, 1)[1]

\* the parse of a one-keyword text whose millimetre value, in range, is not
\* the keyword default: one operation, its delta the value of the text
C10_Witness ==
    /\ Parsed
    /\ instruction.kind = "str"
    /\ Cardinality(MatchedEntries) = 1
    /\ Len(MmFindall(instruction.chars, 1)) = 1
    /\ Len(operations) = 1
    /\ operations[1].delta_mm = MmFindall(instruction.chars, 1)[1]
    /\ operations[1].delta_mm # _extract_operations(NormalizedText)[1].delta_mm

(***************************************************************************)
(* Properties of the mesh deformation engine (SpecMesh).                   *)
(***************************************************************************)
EditMeshReturned == last_call = "edit_mesh"

\* the call changed vertex positions: the mesh returned differs from the
\* mesh the caller passed
PositionsChanged == edited_mesh.mesh.vertices # OriginalMesh.vertices

\* an operation the engine cannot apply: no handler for the target, a delta
\* that is not a number, or not a dict at all
Malformed(op) ==
    \/ ~op.isdict
    \/ op.target \notin DOMAIN clamp_limits
    \/ op.delta_mm.tag = "other"

\* C3: for any mesh and any operation sequence, unknown targets,
\* out-of-range deltas and malformed operations included, edit_mesh returns
\* a mesh with as many vertices as the input and the same face array.
C3_TopologyPreserved ==
    EditMeshReturned =>
        /\ NumVertices(edited_mesh.mesh) = NumVertices(OriginalMesh)
        /\ DOMAIN edited_mesh.mesh.vertices = DOMAIN OriginalMesh.vertices
        /\ edited_mesh.mesh.faces = OriginalMesh.faces

\* an edit with a malformed operation and an out-of-range delta in the
\* sequence that moved vertices of a mesh smaller than the landmark model
C3_Witness ==
    /\ EditMeshReturned
    /\ mesh_request.ops_arg.islist
    /\ \E i \in 1..Len(mesh_request.ops_arg.ops) : Malformed(mesh_request.ops_arg.ops[i])
    /\ \E i \in 1..Len(mesh_request.ops_arg.ops) :
          LET op == mesh_request.ops_arg.ops[i]
          IN  /\ ~Malformed(op)
              /\ op.delta_mm.tag = "num"
              /\ _clamp_value(op.target, op.delta_mm).value # op.delta_mm
    /\ PositionsChanged
    /\ NumVertices(OriginalMesh) < 468

\* C4 as stated: after any call of the engine that changed vertex
\* positions, the mesh object the caller passed in has its original vertex
\* positions.
C4_CallerMeshUntouched ==
    (last_call # "none" /\ PositionsChanged) => mesh = OriginalMesh

\* the operations of the request whose application met no exception
RECURSIVE Unfaulted(_, _, _)
Unfaulted(ops, faults, i) ==
    IF i > Len(ops) THEN <<>>
    ELSE (IF faults[i] = 0 THEN <<ops[i]>> ELSE <<>>) \o Unfaulted(ops, faults, i + 1)

\* C5 as stated: an operation whose application raises contributes no
\* displacement at all, the operations before it keep theirs and the ones
\* after it are applied: the result of edit_mesh is the result of the
\* operations that did not raise, applied in order.
C5_RaisingOperationContributesNothing ==
    (EditMeshReturned /\ mesh_request.ops_arg.islist) =>
        LET kept == Unfaulted(mesh_request.ops_arg.ops, mesh_request.faults, 1)
        IN  edited_mesh.mesh =
               edit_mesh(OriginalMesh, OpList(kept), [i \in 1..Len(kept) |-> 0]).cur

(***************************************************************************)
(* Properties of the similarity alignment solver (SpecSim).                *)
(***************************************************************************)
Estimated == last_call = "_estimate_similarity"

Sign(x) == IF x > 0 THEN 1 ELSE IF x < 0 THEN -1 ELSE 0

\* m / sqrt(n2) = RotMatrix(rot) / rot.h, entry by entry
SameRotation(R, rot) ==
    \A i \in 1..2 : \A j \in 1..2 :
        /\ Sign(R.m[i][j]) = Sign(RotMatrix(rot)[i][j])
        /\ R.m[i][j] * R.m[i][j] * rot.h * rot.h
              = RotMatrix(rot)[i][j] * RotMatrix(rot)[i][j] * R.n2

\* C6 as stated: for A with at least 2 points that do not all coincide and
\* B = s * (A @ R) + t, R a proper rotation, s > 0, _estimate_similarity(A, B)
\* returns that R, s and t.
C6_RoundTripRecoversTransform ==
    ( /\ Estimated
      /\ sim_request.kind = "similar"
      /\ Len(sim_request.A.rows) >= 2
      /\ VarianceA(sim_request.A) > 0 )
    => /\ sim_result.raised = ""
       /\ SameRotation(sim_result.R, sim_request.known.rot)
       /\ sim_result.scale.sq_num =
             (sim_request.known.g * sim_request.known.rot.h)
                * (sim_request.known.g * sim_request.known.rot.h)
                * sim_result.scale.sq_den
       /\ sim_result.t.exact
       /\ \A c \in 1..2 :
             sim_result.t.num[c] = sim_request.known.t[c] * sim_result.t.den

\* C7: whenever A and B differ in shape or hold fewer than 2 points,
\* _estimate_similarity raises the ValueError of its first statement and
\* returns no transform.
C7_RejectsBadShapes ==
    ( /\ Estimated
      /\ \/ Shape(sim_request.A) # Shape(sim_request.B)
         \/ Len(sim_request.A.rows) < 2 )
    => sim_result = Raise("ValueError at line 322")

\* a call with one point pair, the shapes equal
C7_Witness ==
    /\ Estimated
    /\ Shape(sim_request.A) = Shape(sim_request.B)
    /\ Len(sim_request.A.rows) = 1
    /\ sim_result.raised # ""

\* C8: for every input the solver accepts, the R it returns is a proper
\* rotation: R R^T = I and det R = +1.
C8_ProperRotation ==
    (Estimated /\ sim_result.raised = "") =>
        LET m == sim_result.R.m
            n2 == sim_result.R.n2
        IN  /\ n2 > 0
            /\ m[1][1] * m[1][1] + m[1][2] * m[1][2] = n2
            /\ m[2][1] * m[2][1] + m[2][2] * m[2][2] = n2
            /\ m[1][1] * m[2][1] + m[1][2] * m[2][2] = 0
            /\ Det2(m) = n2

\* a call with B a rotated mirror image of A, det S < 0
C8_Witness ==
    /\ Estimated
    /\ sim_request.kind = "mirrored"
    /\ sim_request.known.g = 0
    /\ Det2(CrossCovariance(sim_request.A, sim_request.B)) < 0
    /\ sim_result.raised = ""
    /\ Det2(sim_result.R.m) > 0

(***************************************************************************)
(* Default deltas (C11).                                                   *)
(***************************************************************************)
\* the intensity-table entries the text contains
IntensityEntries ==
    { k \in 1..Len(intensity_keywords) :
        Contains(intensity_keywords[k].keyword, NormalizedText) }

\* the multiplier of the first of them in table order, 1.0 when there is none
TableMultiplier ==
    IF IntensityEntries = {} THEN TenthScale
    ELSE intensity_keywords[CHOOSE k \in IntensityEntries :
                               \A j \in IntensityEntries : k <= j].multiplier

DefaultDeltaUnder(op, multiplier) ==
    /\ op.intensity_multiplier = multiplier
    /\ op.delta_mm * TenthScale * TenthScale =
          (IF op.action_type = "decrease" THEN -1 ELSE 1)
             * get_max_delta(op.target) * default_ratios(op.target) * multiplier

AllDefaultsUnder(ops, multiplier) ==
    \A i \in 1..Len(ops) :
        ops[i].value_type = "none" => DefaultDeltaUnder(ops[i], multiplier)

BothParsed == Parsed /\ reordered.parsed

\* what a text contains, as the parser's scans see it
TableEntriesIn(table, instr) ==
    { k \in 1..Len(table) : Contains(table[k].keyword, _normalize_instruction(instr).value) }

SignMarkersIn(instr) ==
    { w \in { <<"+">>, PLUS_WORD, <<"-">>, MINUS_WORD } :
        Contains(w, _normalize_instruction(instr).value) }

NumericOrderIn(instr) == all_numerical_values(instr.chars)

NumericValuesIn(instr) ==
    { NumericOrderIn(instr)[i] : i \in 1..Len(NumericOrderIn(instr)) }

\* the same keywords, action words (sign markers included), intensity words
\* and numeric values
SameContent(a, b) ==
    /\ TableEntriesIn(keyword_mapping, a) = TableEntriesIn(keyword_mapping, b)
    /\ TableEntriesIn(action_keywords, a) = TableEntriesIn(action_keywords, b)
    /\ TableEntriesIn(intensity_keywords, a) = TableEntriesIn(intensity_keywords, b)
    /\ SignMarkersIn(a) = SignMarkersIn(b)
    /\ NumericValuesIn(a) = NumericValuesIn(b)

\* C12 as stated: the operations come in keyword-table order whatever the
\* text order: two texts with the same set of keywords, action words,
\* intensity words and numeric values, in different positions, yield the
\* same operation sequence.
C12_SameContentSameOperations ==
    (BothParsed /\ SameContent(instruction, reordered.instruction))
        => reordered.operations = operations

\* C12 amended: two texts with the same set of keywords, action words and
\* intensity words, and the same numeric values in the same order, yield the
\* same operation sequence, in keyword-table order.
C12_SameContentAndNumericOrder ==
    ( /\ BothParsed
      /\ SameContent(instruction, reordered.instruction)
      /\ NumericOrderIn(instruction) = NumericOrderIn(reordered.instruction) )
        => /\ reordered.operations = operations
           /\ \A i, j \in 1..Len(operations) :
                 i < j =>
                    \E k, l \in 1..Len(keyword_mapping) :
                       /\ k < l
                       /\ keyword_mapping[k].keyword = operations[i].keyword_found
                       /\ keyword_mapping[l].keyword = operations[j].keyword_found

\* 顎, a number and 目 in two orders: both parses return the eye operation
\* first, the number applied to it
C12_Witness ==
    /\ BothParsed
    /\ instruction # reordered.instruction
    /\ SameContent(instruction, reordered.instruction)
    /\ NumericOrderIn(instruction) = NumericOrderIn(reordered.instruction)
    /\ NumericOrderIn(instruction) # <<>>
    /\ instruction.chars[1] = "ago"
    /\ reordered.instruction.chars[1] = "me"
    /\ Len(operations) = 2
    /\ operations[1].target = "eye_size_ratio"
    /\ operations[1].value_type # "none"
    /\ operations[2].target = "jaw_width_mm"
    /\ reordered.operations = operations

(***************************************************************************)
(* The two limit regimes (C13).                                            *)
(***************************************************************************)
SupportedTargets == { get_targets[i] : i \in 1..Len(get_targets) }

\* the value _apply_operation reads from an operation (lines 81-82)
RequestedValue(op) ==
    IF op.delta_mm.tag # "absent" THEN op.delta_mm
    ELSE IF op.value.tag # "absent" THEN op.value
    ELSE Num(0)

\* C13 as stated: for every supported target, submental_fat_mm included,
\* min_delta <= 0 <= max_delta, and the deformation-time clamp range lies
\* within the parser-time safety range: whatever value an operation on the
\* target carries, the value left by _clamp_value is within
\* [min_delta(target), max_delta(target)].
C13_ClampWithinSafetyRange ==
    (EditMeshReturned /\ mesh_request.ops_arg.islist) =>
        \A i \in 1..Len(mesh_request.ops_arg.ops) :
            LET op == mesh_request.ops_arg.ops[i]
            IN  ( /\ op.isdict
                  /\ op.target \in SupportedTargets
                  /\ RequestedValue(op).tag = "num" )
                => /\ get_min_delta(op.target) <= 0
                   /\ 0 <= get_max_delta(op.target)
                   /\ ~_clamp_value(op.target, RequestedValue(op)).raised
                   /\ get_min_delta(op.target)
                         <= _clamp_value(op.target, RequestedValue(op)).value.n
                   /\ _clamp_value(op.target, RequestedValue(op)).value.n
                         <= get_max_delta(op.target)

(***************************************************************************)
(* The empty operation list (C14).                                         *)
(***************************************************************************)
EmptyOperationList ==
    /\ EditMeshReturned
    /\ mesh_request.ops_arg.islist
    /\ mesh_request.ops_arg.ops = <<>>

\* C14: edit_mesh called with the empty operation list returns a mesh whose
\* vertex positions are identical to those of the mesh passed in.
C14_EmptyListIsIdentity ==
    EmptyOperationList => edited_mesh.mesh.vertices = OriginalMesh.vertices

\* edit_mesh(mesh, []) on the 468-vertex mesh: a copy with the same positions
C14_Witness ==
    /\ EmptyOperationList
    /\ NumVertices(OriginalMesh) = 468
    /\ ~edited_mesh.is_arg
    /\ edited_mesh.mesh.vertices = OriginalMesh.vertices

(***************************************************************************)
(* The integrated pipeline (C15).                                          *)
(***************************************************************************)
PipelineResponded == last_call \in {"process_face_mesh", "deform_mesh"}

\* the operations the handler has to run through the engine
HandlerOperations ==
    IF last_call = "process_face_mesh" THEN EngineOps(operations)
    ELSE mesh_request.ops_arg.ops

NoFaults(ops) == [i \in 1..Len(ops) |-> 0]

\* C15 as stated: in process_face_mesh and in the JSON mesh-deform handler
\* every operation of the list is handed to the engine and applied in list
\* order, giving the edited mesh; a non-empty operation list does not make
\* the request fail.
C15_PipelineAppliesOperations ==
    (PipelineResponded /\ HandlerOperations # <<>>) =>
        /\ response.raised_by # "edit_mesh call"
        /\ edited_mesh.mesh =
              edit_mesh(OriginalMesh, OpList(HandlerOperations),
                        NoFaults(HandlerOperations)).cur

(***************************************************************************)
(* The numeric override (C16, C17, C18).                                   *)
(***************************************************************************)
\* the operations of the keyword scan, with their default deltas
Defaults == _extract_operations(NormalizedText)

\* the delta the first of the numeric values stands for, on the first of
\* the operations
FirstDeltaOf(defaults, values) ==
    _convert_value_to_delta(defaults[1].target, values[1].value, values[1].type)

FirstValueDelta == FirstDeltaOf(Defaults, NumericValues)

Overridden == Parsed /\ instruction.kind = "str" /\ Defaults # <<>> /\ NumericValues # <<>>

KeywordAndDelta(ops) == [i \in 1..Len(ops) |-> <<ops[i].keyword_found, ops[i].delta_mm>>]

\* the operations of the keyword scan, the first one carrying delta d
WithFirstDelta(defaults, d) ==
    [i \in 1..Len(defaults) |->
        [target        |-> defaults[i].target,
         keyword_found |-> defaults[i].keyword_found,
         delta_mm      |-> IF i = 1 THEN d ELSE defaults[i].delta_mm]]

\* ops is the keyword-scan list with the first delta replaced by d, less the
\* operations out of range
OnlyFirstOverridden(ops, defaults, d) ==
    /\ KeywordAndDelta(ops) = KeywordAndDelta(SelectSeq(WithFirstDelta(defaults, d), InRange))
    /\ \A i \in 1..Len(ops) :
          ops[i].value_type # "none" =>
             /\ i = 1
             /\ ops[i].keyword_found = defaults[1].keyword_found
             /\ ops[i].delta_mm = d

\* C16: the numeric override changes at most one operation: the first
\* operation in keyword-table order gets its delta from exactly one numeric
\* value, every other operation keeps its default delta, and when the
\* overridden first operation is rejected by validation the value is not
\* passed on to another operation.
C16_OverrideOnlyFirstOperation ==
    Overridden => OnlyFirstOverridden(operations, Defaults, FirstValueDelta)

\* two keywords and a number out of the first target's range: the first
\* operation is dropped, the other is returned with its default delta
C16_Witness ==
    /\ Overridden
    /\ Len(Defaults) >= 2
    /\ ~validate_delta(Defaults[1].target, FirstValueDelta)
    /\ validate_delta(Defaults[2].target, FirstValueDelta)
    /\ operations # <<>>
    /\ operations[1].keyword_found = Defaults[2].keyword_found
    /\ operations[1].delta_mm = Defaults[2].delta_mm
    /\ operations[1].delta_mm # FirstValueDelta
    /\ \A i \in 1..Len(operations) : operations[i].value_type = "none"

\* the matches of each pattern in the text, in text order
MmValues == MmFindall(instruction.chars, 1)
RatioValues == RatioFindall(instruction.chars, 1)
IntensityValues == IntensityFindall(instruction.chars, 1)

PatternTypesPresent ==
    { t \in {"mm", "ratio", "intensity"} :
        \/ t = "mm" /\ MmValues # <<>>
        \/ t = "ratio" /\ RatioValues # <<>>
        \/ t = "intensity" /\ IntensityValues # <<>> }

\* the first value of the type of highest priority: mm, then %, then 強度N
PriorityValue ==
    IF MmValues # <<>> THEN [type |-> "mm", value |-> MmValues[1]]
    ELSE IF RatioValues # <<>> THEN [type |-> "ratio", value |-> RatioValues[1]]
    ELSE [type |-> "intensity", value |-> IntensityValues[1]]

\* d is the delta value v stands for on the target: v mm, (p / 100) * max_delta
\* for p %, (N / 10) * max_delta for 強度N
IsDeltaOf(d, v, target) ==
    CASE v.type = "mm"        -> d = v.value
      [] v.type = "ratio"     -> d * 100 * DeltaScale = v.value * get_max_delta(target)
      [] v.type = "intensity" -> d * 10 * DeltaScale = v.value * get_max_delta(target)

\* the delta v stands for on the target is within the target's range
HasDeltaInRange(v, target) ==
    CASE v.type = "mm" ->
            get_min_delta(target) <= v.value /\ v.value <= get_max_delta(target)
      [] v.type = "ratio" ->
            /\ get_min_delta(target) * 100 * DeltaScale <= v.value * get_max_delta(target)
            /\ v.value * get_max_delta(target) <= get_max_delta(target) * 100 * DeltaScale
      [] v.type = "intensity" ->
            /\ get_min_delta(target) * 10 * DeltaScale <= v.value * get_max_delta(target)
            /\ v.value * get_max_delta(target) <= get_max_delta(target) * 10 * DeltaScale

AppliedValueIs(ops, defaults, v) ==
    /\ \A i \in 1..Len(ops) :
          ops[i].value_type # "none" =>
             /\ ops[i].value_type = v.type
             /\ ops[i].numerical_value = v.value
             /\ IsDeltaOf(ops[i].delta_mm, v, ops[i].target)
    /\ HasDeltaInRange(v, defaults[1].target) =>
          /\ ops # <<>>
          /\ ops[1].keyword_found = defaults[1].keyword_found
          /\ ops[1].value_type = v.type

\* C17: when the text holds numeric values of more than one pattern type,
\* the value applied is chosen by type, a millimetre value before a
\* percentage and a percentage before 強度N, wherever they stand in the text;
\* p % stands for (p / 100) * max_delta and 強度N for (N / 10) * max_delta.
C17_TypePriority ==
    (Overridden /\ Cardinality(PatternTypesPresent) >= 2) =>
        AppliedValueIs(operations, Defaults, PriorityValue)

\* 鼻尖 50% -3mm: the millimetre value, second in the text, is applied
C17_Witness ==
    /\ Overridden
    /\ instruction = Str(<<"hana", "sen", " ", "5", "0", "%", " ", "-", "3", "m", "m">>)
    /\ PatternTypesPresent = {"mm", "ratio"}
    /\ Len(operations) = 1
    /\ operations[1].value_type = "mm"
    /\ operations[1].delta_mm = -3000

\* the position of the leftmost match of each pattern (0: no match)
RECURSIVE MmFirstAt(_, _)
MmFirstAt(s, i) ==
    IF i > Len(s) THEN 0 ELSE IF MmAt(s, i).ok THEN i ELSE MmFirstAt(s, i + 1)

RECURSIVE RatioFirstAt(_, _)
RatioFirstAt(s, i) ==
    IF i > Len(s) THEN 0 ELSE IF RatioAt(s, i).ok THEN i ELSE RatioFirstAt(s, i + 1)

RECURSIVE IntensityFirstAt(_, _)
IntensityFirstAt(s, i) ==
    IF i > Len(s) THEN 0
    ELSE IF IntensityAt(s, i).ok THEN i ELSE IntensityFirstAt(s, i + 1)

\* the leftmost match of a pattern, if it matches: [type, value, at]
Leftmost(type, values, at) ==
    IF values # <<>> THEN {[type |-> type, value |-> values[1], at |-> at]} ELSE {}

LeftmostMatches ==
    Leftmost("mm", MmValues, MmFirstAt(instruction.chars, 1))
        \cup Leftmost("ratio", RatioValues, RatioFirstAt(instruction.chars, 1))
        \cup Leftmost("intensity", IntensityValues, IntensityFirstAt(instruction.chars, 1))

MatchValue(m) == [type |-> m.type, value |-> m.value]

\* of a set of matches, the one that stands first in the text
FirstInTextOf(matches) == CHOOSE m \in matches : \A o \in matches : m.at <= o.at

FirstInText == FirstInTextOf(LeftmostMatches)

\* the first operation carries the value of match m, if that is in range
SetsFirstDelta(ops, defaults, m) ==
    HasDeltaInRange(MatchValue(m), defaults[1].target) =>
        /\ ops # <<>>
        /\ ops[1].keyword_found = defaults[1].keyword_found
        /\ ops[1].value_type = m.type
        /\ ops[1].numerical_value = m.value
        /\ IsDeltaOf(ops[1].delta_mm, MatchValue(m), ops[1].target)

\* C18 as stated: when the text holds several numeric patterns, the one that
\* occurs first in text order sets the delta of the first operation, whatever
\* its type.
C18_FirstInTextOrder ==
    (Overridden /\ Cardinality(PatternTypesPresent) >= 2) =>
        SetsFirstDelta(operations, Defaults, FirstInText)

\* of a set of leftmost matches, the one of the type of highest priority
OfPriorityType(matches) ==
    CHOOSE m \in matches :
        \A o \in matches :
            \/ m.type = "mm"
            \/ m.type = "ratio" /\ o.type # "mm"
            \/ o.type = "intensity"

LeftmostOfPriorityType == OfPriorityType(LeftmostMatches)

\* C18 amended: when the text holds several numeric patterns, the one that
\* occurs first in text order among those of the type of highest priority
\* present (mm, then %, then 強度N) sets the delta of the first operation; a
\* pattern of a lower-priority type does not, even when it stands earlier.
C18_FirstInTextOrderOfPriorityType ==
    (Overridden /\ Len(NumericValues) >= 2) =>
        SetsFirstDelta(operations, Defaults, LeftmostOfPriorityType)

\* a text whose first number is not of the highest-priority type present: the
\* first operation carries the leftmost value of the highest-priority type
C18_Witness ==
    /\ Overridden
    /\ Cardinality(PatternTypesPresent) >= 2
    /\ FirstInText.type # LeftmostOfPriorityType.type
    /\ operations # <<>>
    /\ operations[1].value_type = LeftmostOfPriorityType.type
    /\ operations[1].numerical_value = LeftmostOfPriorityType.value
    /\ ~IsDeltaOf(operations[1].delta_mm, MatchValue(FirstInText), operations[1].target)

(***************************************************************************)
(* Action inference (C19) and duplicate candidates (C20).                  *)
(***************************************************************************)
\* the action-table entries the text contains
ActionEntries ==
    { k \in 1..Len(action_keywords) :
        Contains(action_keywords[k].keyword, NormalizedText) }

HasSign(sign, word) ==
    Contains(<<sign>>, NormalizedText) \/ Contains(word, NormalizedText)

\* the action of the whole text: an increase word anywhere, else a decrease
\* word, else the sign markers, else increase
InferredAction ==
    IF \E k \in ActionEntries : action_keywords[k].action = "increase" THEN "increase"
    ELSE IF ActionEntries # {} THEN "decrease"
    ELSE IF HasSign("+", PLUS_WORD) THEN "increase"
    ELSE IF HasSign("-", MINUS_WORD) THEN "decrease"
    ELSE "increase"

AllCarry(ops, action, multiplier) ==
    \A i \in 1..Len(ops) :
        /\ ops[i].action_type = action
        /\ ops[i].action_found = action
        /\ ops[i].intensity_multiplier = multiplier

\* C19: the action is a function of the whole text, the same for every
\* matched target: the class of the first entry of the action table that is
\* a substring of the text (every increase entry precedes every decrease
\* entry, so an increase word anywhere, even inside a target keyword, wins
\* over any decrease word); without one, increase for '+' or プラス, else
\* decrease for '-' or マイナス, else increase.  All operations of one parse
\* carry the same action and the same intensity multiplier.
C19_ActionOfWholeText ==
    Parsed =>
        /\ \A k, l \in 1..Len(action_keywords) :
              (k < l /\ action_keywords[k].action = "decrease")
                  => action_keywords[l].action = "decrease"
        /\ AllCarry(operations, InferredAction, TableMultiplier)

\* 目の大きさを細くする: 大 of the target keyword makes both operations an
\* increase, although the text says 細く
C19_Witness ==
    /\ Parsed
    /\ instruction = Str(<<"me", "h_no", "oo", "h_ki", "h_sa",
                           "h_wo", "hoso", "h_ku", "h_su", "h_ru">>)
    /\ \E k \in ActionEntries : action_keywords[k].action = "decrease"
    /\ Len(operations) = 2
    /\ \A i \in 1..2 : operations[i].action_type = "increase" /\ operations[i].delta_mm > 0

\* the rank of entry k among the entries, in table order
RankOf(k, entries) == Cardinality({ j \in entries : j <= k })

\* ops holds one operation per entry, in table order
OnePerEntry(ops, entries) ==
    /\ Len(ops) = Cardinality(entries)
    /\ \A k \in entries :
          /\ ops[RankOf(k, entries)].keyword_found = keyword_mapping[k].keyword
          /\ ops[RankOf(k, entries)].target = keyword_mapping[k].target
    /\ \A t \in SupportedTargets :
          Cardinality({ i \in 1..Len(ops) : ops[i].target = t })
             = Cardinality({ k \in entries : keyword_mapping[k].target = t })

\* C20: the keyword scan emits one candidate operation per keyword-table
\* entry that is a substring of the normalized text, not one per target: a
\* target reached through k matching keywords appears k times, nothing is
\* de-duplicated.  (Without a numeric value every candidate is returned.)
C20_OneCandidatePerKeyword ==
    (Parsed /\ instruction.kind = "str" /\ NumericValues = <<>>) =>
        OnePerEntry(operations, MatchedEntries)

\* 目の大きさ contains the keywords 目 and 目の大きさ: eye_size_ratio twice
C20_Witness ==
    /\ Parsed
    /\ instruction.kind = "str"
    /\ NumericValues = <<>>
    /\ Cardinality(MatchedEntries) = 2
    /\ Len(operations) = 2
    /\ operations[1].target = "eye_size_ratio"
    /\ operations[2].target = "eye_size_ratio"
    /\ operations[1].keyword_found = <<"me">>
    /\ operations[2].keyword_found = <<"me", "h_no", "oo", "h_ki", "h_sa">>

(***************************************************************************)
(* The frame of one deformation operation (C21).                           *)
(***************************************************************************)
\* the regions the dispatch of _apply_operation (lines 88-101) and the
\* _deform_* methods (lines 196-225) resolve for a target
ResolvedRegions(target) ==
    IF target = "nasal_tip_mm"           THEN {"nose_tip"}
    ELSE IF target = "nasal_bridge_mm"   THEN {"nose_bridge"}
    ELSE IF target = "eye_size_ratio"    THEN {"left_eye", "right_eye"}
    ELSE IF target = "jaw_width_mm"      THEN {"jaw_line"}
    ELSE IF target = "lip_thickness_mm"  THEN {"mouth_outer"}
    ELSE IF target = "cheek_contour_mm"  THEN {"left_cheek", "right_cheek"}
    ELSE IF target = "forehead_width_mm" THEN {"forehead"}
    ELSE {}

\* the indices of the regions of a target, valid or not
ResolvedIndices(target) ==
    UNION { RegionIndices(r) : r \in ResolvedRegions(target) }

\* edit_mesh returned from a list of exactly one operation
SingleOperation ==
    /\ EditMeshReturned
    /\ mesh_request.ops_arg.islist
    /\ Len(mesh_request.ops_arg.ops) = 1

\* the vertices whose position differs between two meshes of one size
MovedVertices(before, after) ==
    { idx \in DOMAIN before.vertices : after.vertices[idx] # before.vertices[idx] }

\* C21: a single deformation operation changes only the positions of
\* vertices whose index belongs to the region(s) resolved for its target and
\* is smaller than the mesh's vertex count; every other vertex keeps its
\* position, and region indices at or beyond the vertex count are skipped
\* without an error (the call returns a mesh with every vertex of the input).
C21_OnlyRegionVerticesMove ==
    SingleOperation =>
        /\ DOMAIN edited_mesh.mesh.vertices = DOMAIN OriginalMesh.vertices
        /\ MovedVertices(OriginalMesh, edited_mesh.mesh)
              \subseteq { idx \in ResolvedIndices(mesh_request.ops_arg.ops[1].target) :
                            idx < NumVertices(OriginalMesh) }

\* a cheek-contour operation on a 200-vertex mesh: the left cheek (116..139)
\* moved, the right cheek (345..358) lies wholly beyond the mesh and was
\* skipped; an eye-size operation on a 36-vertex mesh moves 33..35 only
C21_Witness ==
    /\ SingleOperation
    /\ mesh_request.ops_arg.ops[1].target = "cheek_contour_mm"
    /\ NumVertices(OriginalMesh) = 200
    /\ MovedVertices(OriginalMesh, edited_mesh.mesh) = RegionIndices("left_cheek")
    /\ \A idx \in RegionIndices("right_cheek") : idx >= NumVertices(OriginalMesh)

(***************************************************************************)
(* The displacement of one operation (C22).                                *)
(***************************************************************************)
\* edit_mesh returned from one operation on a target of the engine, with a
\* numeric delta, no statement of which raised
SingleHandledOperation ==
    /\ SingleOperation
    /\ mesh_request.faults[1] = 0
    /\ mesh_request.ops_arg.ops[1].isdict
    /\ mesh_request.ops_arg.ops[1].target \in DOMAIN clamp_limits
    /\ RequestedValue(mesh_request.ops_arg.ops[1]).tag = "num"

\* the delta restricted to the engineering range of the target
ClampedTo(range, delta) ==
    IF delta < range[1] THEN range[1] ELSE IF delta > range[2] THEN range[2] ELSE delta

\* the indices of a region that the mesh has
ValidIndices(region_name, m) ==
    { idx \in RegionIndices(region_name) : idx < NumVertices(m) }

\* the displacement of vertex idx between two meshes
DisplacementOf(idx, before, after) ==
    [k \in 1..3 |-> after.vertices[idx][k] - before.vertices[idx][k]]

\* the vector of length amount along axis k
AlongAxis(k, amount) == [j \in 1..3 |-> IF j = k THEN amount ELSE 0]

\* every valid vertex of the region moved by amount (in tenths of the delta
\* unit, i.e. 0.1 x the delta) along axis k
RegionMovedBy(region_name, k, amount) ==
    \A idx \in ValidIndices(region_name, OriginalMesh) :
        DisplacementOf(idx, OriginalMesh, edited_mesh.mesh) = AlongAxis(k, amount)

\* the left and the right region of the two-region targets
LeftRegion(target) == IF target = "eye_size_ratio" THEN "left_eye" ELSE "left_cheek"
RightRegion(target) == IF target = "eye_size_ratio" THEN "right_eye" ELSE "right_cheek"

\* what C22 says of one operation on target with the clamped delta c
DisplacedByClampedDelta(target, c) ==
    /\ Abs(c) <= clamp_limits[target][2]
    /\ IF target \in {"eye_size_ratio", "cheek_contour_mm"}
       THEN /\ RegionMovedBy(LeftRegion(target), 1, c)
            /\ RegionMovedBy(RightRegion(target), 1, -c)
       ELSE \E k \in 1..3 :
               \A r \in ResolvedRegions(target) : RegionMovedBy(r, k, c)

\* C22: for each handled target, one operation displaces every valid region
\* vertex by exactly 0.1 x clamp(delta) along a single axis, clamp restricting
\* delta to the target's hardcoded engineering range, so that no vertex moves
\* by more than 0.1 x the engineering maximum; for eye-size and cheek-contour
\* the left region receives +0.1 x clamp(delta) and the right region
\* -0.1 x clamp(delta) on the lateral axis.
C22_DisplacementIsAttenuatedClampedDelta ==
    SingleHandledOperation =>
        DisplacedByClampedDelta(
            mesh_request.ops_arg.ops[1].target,
            ClampedTo(clamp_limits[mesh_request.ops_arg.ops[1].target],
                      RequestedValue(mesh_request.ops_arg.ops[1]).n))

\* a cheek-contour operation of -2.1 on the landmark mesh: clamped to -1.5,
\* the left cheek moved by -0.15 and the right cheek by +0.15 along X
C22_Witness ==
    /\ SingleHandledOperation
    /\ NumVertices(OriginalMesh) = 468
    /\ mesh_request.ops_arg.ops[1] = OpDict("cheek_contour_mm", Num(-2100), Absent)
    /\ DisplacementOf(116, OriginalMesh, edited_mesh.mesh) = <<-1500, 0, 0>>
    /\ DisplacementOf(345, OriginalMesh, edited_mesh.mesh) = <<1500, 0, 0>>

(***************************************************************************)
(* The direction of the displacement per target (C23).                     *)
(***************************************************************************)
\* the signed lateral distance of vertex idx from the centerline of mesh m
\* (the mean X of its vertices), times the number of vertices
LateralDistance(idx, m) ==
    NumVertices(m) * m.vertices[idx][1] - SumOver(m.vertices, DOMAIN m.vertices, 1)

\* every valid vertex of the region moved along axis k only
RegionMovedAlong(region_name, k) ==
    \A idx \in ValidIndices(region_name, OriginalMesh) :
        \A j \in (1..3) \ {k} :
            DisplacementOf(idx, OriginalMesh, edited_mesh.mesh)[j] = 0

\* the lateral displacements of the valid vertices of the region are in
\* proportion to their signed distances from the centerline
RegionScaledByDistance(region_name) ==
    \A a, b \in ValidIndices(region_name, OriginalMesh) :
        DisplacementOf(a, OriginalMesh, edited_mesh.mesh)[1]
              * LateralDistance(b, OriginalMesh)
           = DisplacementOf(b, OriginalMesh, edited_mesh.mesh)[1]
              * LateralDistance(a, OriginalMesh)

\* C23 as stated: the displacement direction per target is: nasal-tip along
\* the depth (Z) axis; jaw-width along the lateral (X) axis with a per-vertex
\* amount scaled by sign and by the vertex's distance from the centerline;
\* lip-thickness along the vertical (Y) axis.
C23_DirectionPerTarget ==
    SingleHandledOperation =>
        /\ mesh_request.ops_arg.ops[1].target = "nasal_tip_mm"
              => RegionMovedAlong("nose_tip", 3)
        /\ mesh_request.ops_arg.ops[1].target = "jaw_width_mm"
              => /\ RegionMovedAlong("jaw_line", 1)
                 /\ RegionScaledByDistance("jaw_line")
        /\ mesh_request.ops_arg.ops[1].target = "lip_thickness_mm"
              => RegionMovedAlong("mouth_outer", 2)

\* the part of C23 the engine does satisfy: nasal-tip along Z, jaw-width
\* along X
C23_NasalTipAndJawAxis ==
    SingleHandledOperation =>
        /\ mesh_request.ops_arg.ops[1].target = "nasal_tip_mm"
              => RegionMovedAlong("nose_tip", 3)
        /\ mesh_request.ops_arg.ops[1].target = "jaw_width_mm"
              => RegionMovedAlong("jaw_line", 1)

(***************************************************************************)
(* Targets without a deformation handler (C24).                            *)
(***************************************************************************)
\* an operation that is a dict whose target the dispatch of _apply_operation
\* does not know
Unhandled(op) == op.isdict /\ op.target \notin DOMAIN clamp_limits

\* the indices of the operations that are not unhandled, in order
RECURSIVE HandledFrom(_, _)
HandledFrom(ops, i) ==
    IF i > Len(ops) THEN <<>>
    ELSE (IF Unhandled(ops[i]) THEN <<>> ELSE <<i>>) \o HandledFrom(ops, i + 1)

\* the result of edit_mesh on the operations at the indices kept
EditKept(ops, faults, kept) ==
    edit_mesh(OriginalMesh, OpList([j \in 1..Len(kept) |-> ops[kept[j]]]),
              [j \in 1..Len(kept) |-> faults[kept[j]]]).cur

\* C24: an operation whose target has no deformation handler is a no-op
\* that raises nothing: the mesh is returned with all vertex positions
\* unchanged and the following operations are still applied, so the result of
\* edit_mesh is the result of the other operations; this includes
\* submental_fat_mm, a supported target the parser emits operations for.
C24_UnhandledTargetIsNoOp ==
    (EditMeshReturned /\ mesh_request.ops_arg.islist) =>
        /\ \A i \in 1..Len(mesh_request.ops_arg.ops) :
              Unhandled(mesh_request.ops_arg.ops[i]) =>
                 ~_clamp_value(mesh_request.ops_arg.ops[i].target,
                               RequestedValue(mesh_request.ops_arg.ops[i])).raised
        /\ edited_mesh.mesh =
              EditKept(mesh_request.ops_arg.ops, mesh_request.faults,
                       HandledFrom(mesh_request.ops_arg.ops, 1))
        /\ (\A i \in 1..Len(mesh_request.ops_arg.ops) :
               Unhandled(mesh_request.ops_arg.ops[i]))
              => edited_mesh.mesh.vertices = OriginalMesh.vertices

\* a submental_fat_mm operation, which the parser's keyword table and the
\* registry know, followed by a nasal-tip operation on the landmark mesh: the
\* nose tip moved as if the first operation were not there, the chin did not
C24_Witness ==
    /\ EditMeshReturned
    /\ mesh_request.ops_arg.islist
    /\ NumVertices(OriginalMesh) = 468
    /\ mesh_request.ops_arg.ops = << OpDict("submental_fat_mm", Num(-1800), Absent),
                                     OpDict("nasal_tip_mm", Num(1800), Absent) >>
    /\ mesh_request.faults = <<0, 0>>
    /\ "submental_fat_mm" \in SupportedTargets
    /\ \E k \in 1..Len(keyword_mapping) : keyword_mapping[k].target = "submental_fat_mm"
    /\ MovedVertices(OriginalMesh, edited_mesh.mesh) = RegionIndices("nose_tip")

(***************************************************************************)
(* Degenerate inputs of the solver (C25).                                  *)
(***************************************************************************)
\* the call was made with arrays that pass the check of line 321
AcceptedInput ==
    /\ Estimated
    /\ Shape(sim_request.A) = Shape(sim_request.B)
    /\ Len(sim_request.A.rows) >= 2

\* every point of the array is the same point
AllCoincide(X) == \A k \in 1..Len(X.rows) : X.rows[k] = X.rows[1]

\* C25 as stated: for every input accepted by _estimate_similarity (equal
\* shapes, at least 2 pairs), including degenerate inputs where all points
\* of A or all points of B coincide, the call returns without a division
\* error and the returned scale s is a strictly positive scalar.
C25_ScaleStrictlyPositive ==
    AcceptedInput =>
        /\ sim_result.raised = ""
        /\ sim_result.scale.sq_den > 0
        /\ sim_result.scale.sq_num > 0

\* the part of C25 the solver does satisfy: an accepted input never raises,
\* the divisor is never zero and the scale is never negative
C25_ReturnsWithoutDivisionError ==
    AcceptedInput =>
        /\ sim_result.raised = ""
        /\ sim_result.scale.sq_den > 0
        /\ sim_result.scale.sq_num >= 0

\* the scale is zero exactly when the cross-covariance S is the zero matrix,
\* which all points of A coinciding, or all points of B, bring about
C25_ZeroScaleIffNoCovariance ==
    AcceptedInput =>
        /\ (sim_result.scale.sq_num = 0) <=>
              (CrossCovariance(sim_request.A, sim_request.B)
                  = << <<0, 0>>, <<0, 0>> >>)
        /\ (AllCoincide(sim_request.A) \/ AllCoincide(sim_request.B))
              => sim_result.scale.sq_num = 0

(***************************************************************************)
(* The overlay alignment (C26, SpecEndpoints).                             *)
(***************************************************************************)
\* overlay_mesh got as far as building aligned_mesh (line 382 / 399)
OverlayAligned ==
    /\ last_call = "overlay_mesh"
    /\ mesh_request.consent
    /\ mesh_request.face_detected
    /\ sim_result.raised = ""

\* the vertices of a whose X or Y differs from that of b, as a fraction
XYChanged(a, den, b) ==
    { idx \in DOMAIN b.vertices :
        \/ a.vertices[idx][1] # den * b.vertices[idx][1]
        \/ a.vertices[idx][2] # den * b.vertices[idx][2] }

EndpointResponded ==
    /\ last_call # "none"
    /\ mesh_request.handler
          \in {"analyze_face", "visualize_mesh", "deform_mesh_form", "overlay_mesh"}

\* the prompt of the form handler was parsed to no operation
NoValidOperations ==
    /\ mesh_request.handler = "deform_mesh_form"
    /\ mesh_request.consent
    /\ mesh_request.face_detected
    /\ operations = <<>>

\* C30 as stated: a request to a consent-gated endpoint (/analyze,
\* /visualize-mesh, /mesh/deform, /mesh/overlay) with consent = false is
\* rejected with HTTP status 400 "Consent is required" before the uploaded
\* image is read; likewise the other client-error conditions raised inside
\* the handlers (no face detected, no valid operations in prompt) reach the
\* client with status 400.
C30_ClientErrorsAnswered400 ==
    EndpointResponded =>
        /\ ~mesh_request.consent
              => /\ response.status = 400
                 /\ response.raised_by = "Consent is required"
                 /\ ~response.image_read
        /\ (mesh_request.consent /\ ~mesh_request.face_detected)
              => response.status = 400
        /\ NoValidOperations => response.status = 400

\* what the handlers do instead: the request is rejected before the image
\* is read and the detail is kept, but every client error is answered 500
C30_ClientErrorsAnswered500 ==
    EndpointResponded =>
        /\ ~mesh_request.consent
              => /\ response.status = 500
                 /\ response.raised_by = "Consent is required"
                 /\ ~response.image_read
        /\ (mesh_request.consent /\ ~mesh_request.face_detected)
              => response.status = 500
        /\ NoValidOperations => response.status = 500

(***************************************************************************)
(* Shared state under concurrent requests (C27, SpecServer).               *)
(***************************************************************************)
\* the invocations that have been given their processors
Served == { i \in Invocations : invocations[i].pc.at \in {"handler", "done"} }

\* the index of mesh_editor, whose instance holds the Region Map
RegionMapHolder == CHOOSE k \in 1..Len(Globals) : Globals[k] = "mesh_editor"

\* C27 as stated: under any interleaving of concurrent request invocations,
\* no invocation writes state shared with another invocation: the only
\* shared state is the Target Registry and Region Map, which are initialised
\* once at process start and never mutated or replaced afterwards, and every
\* invocation observes the same shared instances.
C27_SharedInstancesInitialisedOnce ==
    /\ processors.config = ProcessorsAtImport.config
    /\ processors.created[RegionMapHolder] <= 1
    /\ \A i, j \in Served :
          /\ invocations[i].got[RegionMapHolder] = invocations[j].got[RegionMapHolder]
          /\ invocations[i].pc.at = "done" /\ invocations[j].pc.at = "done"
                => invocations[i].registry = invocations[j].registry

\* the part of C27 that holds: no step of a request loads or replaces the
\* Target Registry, and every request reads the one config instance
C27_RegistryNeverReplaced ==
    /\ processors.config = ProcessorsAtImport.config
    /\ \A i \in Served :
          invocations[i].pc.at = "done" => invocations[i].registry = 1

(***************************************************************************)
(* What validation can drop (C28, SpecReorder).                            *)
(***************************************************************************)
\* ops is defaults without its first element, targets and deltas compared
IsTailOf(ops, defaults) ==
    /\ Len(defaults) >= 1
    /\ Len(ops) = Len(defaults) - 1
    /\ \A i \in 1..Len(ops) :
          /\ ops[i].target = defaults[i + 1].target
          /\ ops[i].delta_mm = defaults[i + 1].delta_mm

\* ops is defaults, but for the delta of the first element
IsAllOf(ops, defaults) ==
    /\ Len(ops) = Len(defaults)
    /\ \A i \in 1..Len(ops) : ops[i].target = defaults[i].target
    /\ \A i \in 2..Len(ops) : ops[i].delta_mm = defaults[i].delta_mm

\* what C28 says of the list ops returned for a text that matches the
\* keyword entries `entries`, with the default operations `defaults` and the
\* numeric matches `values`
AtMostFirstDropped(ops, defaults, values, entries) ==
    /\ Len(defaults) = Cardinality(entries)
    /\ \A i \in 1..Len(defaults) :
          /\ Abs(defaults[i].delta_mm)
                <= (get_max_delta(defaults[i].target) * default_ratios(defaults[i].target)
                       * defaults[i].intensity_multiplier) \div (TenthScale * TenthScale)
          /\ Abs(defaults[i].delta_mm) <= get_max_delta(defaults[i].target)
          /\ validate_delta(defaults[i].target, defaults[i].delta_mm)
    /\ \/ IsAllOf(ops, defaults)
       \/ IsTailOf(ops, defaults) /\ values # <<>>

\* C28: only the first candidate operation can ever be dropped by
\* validation: every operation that keeps its default delta has |delta| <=
\* max_delta(target) x default_ratio x intensity_multiplier <= max_delta(target)
\* and so always passes; hence for a text matching k keyword entries
\* parse_instruction returns either k or k-1 operations, and k-1 only when the
\* text contains a numeric value.
C28_OnlyFirstCandidateDropped ==
    (Parsed /\ instruction.kind = "str") =>
        AtMostFirstDropped(operations, Defaults, NumericValues, MatchedEntries)

\* '目 +1.8mm顎': two keyword entries match, the override puts 1.8 on the
\* eye-size operation, validation drops it and the jaw default is returned
C28_Witness ==
    /\ Parsed
    /\ instruction.kind = "str"
    /\ Cardinality(MatchedEntries) = 2
    /\ NumericValues # <<>>
    /\ Len(Defaults) = 2
    /\ Defaults[1].target = "eye_size_ratio"
    /\ Len(operations) = 1
    /\ operations[1].target = "jaw_width_mm"
    /\ operations[1].delta_mm = Defaults[2].delta_mm

(***************************************************************************)
(* Additivity of the deformation (C29, SpecMesh).                          *)
(***************************************************************************)
\* the mesh edit_mesh returns for the operation list ops of the request
EditOf(ops, faults) == edit_mesh(OriginalMesh, OpList(ops), faults).cur

\* the meshes edit_mesh returns for each operation of the request applied
\* on its own
IndividualEdits ==
    [i \in 1..Len(mesh_request.ops_arg.ops) |->
        EditOf(<<mesh_request.ops_arg.ops[i]>>, <<mesh_request.faults[i]>>)]

\* the sum over the meshes singles[1..n] of their displacements of idx
RECURSIVE SumOfDisplacements(_, _, _)
SumOfDisplacements(singles, n, idx) ==
    IF n = 0 THEN <<0, 0, 0>>
    ELSE [k \in 1..3 |-> SumOfDisplacements(singles, n - 1, idx)[k]
                            + singles[n].vertices[idx][k]
                            - OriginalMesh.vertices[idx][k]]

\* the vertices some operation of the request can move
TouchedIndices ==
    UNION { ResolvedIndices(mesh_request.ops_arg.ops[i].target) :
              i \in 1..Len(mesh_request.ops_arg.ops) }
        \cap DOMAIN OriginalMesh.vertices

\* edited is the original mesh with every touched vertex displaced by the
\* sum of the individual displacements
IsSumOf(edited, singles, touched) ==
    /\ \A idx \in touched :
          DisplacementOf(idx, OriginalMesh, edited)
             = SumOfDisplacements(singles, Len(singles), idx)
    /\ \A idx \in DOMAIN OriginalMesh.vertices \ touched :
          edited.vertices[idx] = OriginalMesh.vertices[idx]

\* C29: deformation is additive: after edit_mesh(mesh, ops) each vertex
\* position equals its initial position plus the sum of the displacements
\* each operation applies individually (the clamp bounds each operation, not
\* the accumulated displacement, so n copies of an operation move a vertex n
\* times as far); consequently every permutation of ops yields the same
\* vertex positions, also when the operations' regions overlap.
C29_DeformationIsAdditive ==
    (EditMeshReturned /\ mesh_request.ops_arg.islist) =>
        /\ IsSumOf(edited_mesh.mesh, IndividualEdits, TouchedIndices)
        /\ EditOf(Reverse(mesh_request.ops_arg.ops), Reverse(mesh_request.faults)).vertices
              = edited_mesh.mesh.vertices

\* a nasal-bridge operation (168..174, along Y) and a jaw-width operation
\* (172..198, along X) on the landmark mesh: vertex 172, which is in both
\* regions, moved by both displacements
C29_Witness ==
    /\ EditMeshReturned
    /\ mesh_request.ops_arg.islist
    /\ NumVertices(OriginalMesh) = 468
    /\ mesh_request.ops_arg.ops = << OpDict("nasal_bridge_mm", Absent, Num(500)),
                                     OpDict("jaw_width_mm", Num(-2800), Absent) >>
    /\ 172 \in RegionIndices("nose_bridge") \cap RegionIndices("jaw_line")
    /\ DisplacementOf(172, OriginalMesh, edited_mesh.mesh) = <<-2000, 500, 0>>

====
